---- MODULE Spec2Model ----
(***************************************************************************)
(* Model of the s3p codec and receipt pipeline:                            *)
(*   - the LT-style fountain encoder and peeling decoder (s3p-core),       *)
(*   - the Reed-Solomon encode / reconstruct helpers (s3p-core),           *)
(*   - the stream RS profile of the command line tool,                     *)
(*   - the committee receipt verification.                                 *)
(* Vec indices are 0-based in the source and kept 0-based in the model's   *)
(* data; TLA+ sequences are 1-based, so block idx lives at position idx+1. *)
(***************************************************************************)
EXTENDS Integers, Sequences, FiniteSets, TLC

VARIABLES original, enc, emitted, dec, result, received, nrecv, lastPkt,
          rs, st, cm

vars == <<original, enc, emitted, dec, result, received, nrecv, lastPkt,
          rs, st, cm>>

-----------------------------------------------------------------------------
(* Bounds of the model.                                                    *)

MaxData == 3

MaxBlockLen == 2

MaxSeed == 2

MaxRecv == 4

SeedModulus == 4

MaxAdvData == 2

MaxAdvRecv == 3

MaxForgedIdx == 2

MaxEq == 2

ByteVals == {0, 165}

-----------------------------------------------------------------------------
(* Byte and vector helpers.                                                *)

RECURSIVE XorBits(_, _, _)
XorBits(a, b, n) ==
    IF n = 0 THEN 0
    ELSE (((a % 2) + (b % 2)) % 2) + 2 * XorBits(a \div 2, b \div 2, n - 1)

\* Xor of two 4-bit values, tabulated.
XorNibble == [a \in 0..15 |-> [b \in 0..15 |-> XorBits(a, b, 4)]]

Xor8(a, b) == 16 * XorNibble[a \div 16][b \div 16] + XorNibble[a % 16][b % 16]

xor_in_place(target, other) ==
    [i \in 1..Len(target) |->
        IF i <= Len(other) THEN Xor8(target[i], other[i]) ELSE target[i]]

Zeros(n) == [i \in 1..n |-> 0]

\* Mutant of NonZero: no payload is ever seen as non-zero.
NonZeroNever(payload) == FALSE

NonZero(payload) == \E i \in 1..Len(payload) : payload[i] # 0

swap_remove(s, i) ==
    [j \in 1..(Len(s) - 1) |-> IF j = i THEN s[Len(s)] ELSE s[j]]

RECURSIVE InsertSorted(_, _)
InsertSorted(s, x) ==
    IF s = <<>> THEN <<x>>
    ELSE IF x <= Head(s) THEN <<x>> \o s
    ELSE <<Head(s)>> \o InsertSorted(Tail(s), x)

RECURSIVE sort_unstable(_)
sort_unstable(s) ==
    IF s = <<>> THEN <<>>
    ELSE InsertSorted(sort_unstable(Tail(s)), Head(s))

RECURSIVE dedup(_)
dedup(s) ==
    IF Len(s) <= 1 THEN s
    ELSE IF s[1] = s[2] THEN dedup(Tail(s))
    ELSE <<s[1]>> \o dedup(Tail(s))

RECURSIVE SeqsUpTo(_, _)
SeqsUpTo(S, n) ==
    IF n = 0 THEN {<<>>}
    ELSE LET shorter == SeqsUpTo(S, n - 1)
         IN  shorter \cup {Append(s, x) : s \in {t \in shorter : Len(t) = n - 1}, x \in S}

RECURSIVE SetToSortedSeq(_)
SetToSortedSeq(S) ==
    IF S = {} THEN <<>>
    ELSE LET m == CHOOSE x \in S : \A y \in S : x <= y
         IN  <<m>> \o SetToSortedSeq(S \ {m})

Range(s) == {s[i] : i \in 1..Len(s)}

CeilDiv(a, b) == (a + b - 1) \div b

Max2(a, b) == IF a >= b THEN a ELSE b

Min2(a, b) == IF a <= b THEN a ELSE b

-----------------------------------------------------------------------------
(* Fountain encoder.                                                       *)

\* The seed is a u64 advanced by wrapping_add(1); the model keeps the wrap but
\* at a reduced width so that the counter stays finite.
U64 == SeedModulus

FountainMetadata(original_len, block_len, block_count) ==
    [original_len |-> original_len, block_len |-> block_len,
     block_count |-> block_count]

\* FountainEncoder::from_bytes, for block_len > 0.
from_bytes(data, block_len) ==
    LET block_count == Max2(CeilDiv(Len(data), block_len), 1)
        blocks == [b \in 1..block_count |->
                     [j \in 1..block_len |->
                        LET p == (b - 1) * block_len + j
                        IN  IF p <= Len(data) THEN data[p] ELSE 0]]
    IN  [blocks |-> blocks,
         metadata |-> FountainMetadata(Len(data), block_len, block_count),
         systematic_index |-> 0,
         seed |-> 0,
         panicked |-> FALSE]

\* The values sample_degree can return; 0 stands for the panic of
\* gen_range(3..=max_degree) on an empty range (max_degree < 3).
sample_degree(block_count) ==
    IF block_count <= 1 THEN {1}
    ELSE LET max_degree == Min2(block_count, 5)
         IN  {1, Min2(2, block_count)}
               \cup (IF max_degree >= 3
                     THEN {Min2(d, block_count) : d \in 3..max_degree}
                     ELSE {0})

RECURSIVE XorBlocks(_, _, _)
XorBlocks(blocks, indices, payload) ==
    IF indices = <<>> THEN payload
    ELSE XorBlocks(blocks, Tail(indices),
                   xor_in_place(payload, blocks[Head(indices) + 1]))

\* Mutant of next_packet_systematic: the source blocks go out last-first.
next_packet_systematic_Reversed(e) ==
    LET idx == e.metadata.block_count - 1 - e.systematic_index
    IN  [enc |-> [e EXCEPT !.systematic_index = e.systematic_index + 1],
         packet |-> [seed |-> e.seed, indices |-> <<idx>>,
                     payload |-> e.blocks[idx + 1], metadata |-> e.metadata]]

\* The systematic branch of next_packet.
next_packet_systematic(e) ==
    LET idx == e.systematic_index
    IN  [enc |-> [e EXCEPT !.systematic_index = idx + 1],
         packet |-> [seed |-> e.seed, indices |-> <<idx>>,
                     payload |-> e.blocks[idx + 1], metadata |-> e.metadata]]

\* The coded branch of next_packet; chosen is the set the shuffle and the
\* truncate to the sampled degree leave.
next_packet_coded(e, chosen) ==
    LET seed == (e.seed + 1) % U64
        indices == sort_unstable(SetToSortedSeq(chosen))
    IN  [enc |-> [e EXCEPT !.seed = seed],
         packet |-> [seed |-> seed, indices |-> indices,
                     payload |-> XorBlocks(e.blocks, indices,
                                           Zeros(e.metadata.block_len)),
                     metadata |-> e.metadata]]

-----------------------------------------------------------------------------
(* Fountain decoder.                                                       *)

None == [some |-> FALSE, val |-> <<>>]

Some(v) == [some |-> TRUE, val |-> v]

FountainDecoder_new(metadata) ==
    [metadata |-> metadata,
     solutions |-> [i \in 1..metadata.block_count |-> None],
     equations |-> <<>>]

Ok(d) == [dec |-> d, err |-> ""]

Err(d, msg) == [dec |-> d, err |-> msg]

\* Mutant of ReduceLoop: a solved index is dropped without XOR-ing its value.
RECURSIVE ReduceLoopNoXor(_, _, _)
ReduceLoopNoXor(eq, solutions, i) ==
    IF i > Len(eq.indices) THEN [eq |-> eq, err |-> ""]
    ELSE LET idx == eq.indices[i]
         IN  IF idx >= Len(solutions)
             THEN [eq |-> eq, err |-> "block index out of range"]
             ELSE IF solutions[idx + 1].some
                  THEN ReduceLoopNoXor([indices |-> swap_remove(eq.indices, i),
                                        payload |-> eq.payload], solutions, i)
                  ELSE ReduceLoopNoXor(eq, solutions, i + 1)

RECURSIVE ReduceLoop(_, _, _)
ReduceLoop(eq, solutions, i) ==
    IF i > Len(eq.indices) THEN [eq |-> eq, err |-> ""]
    ELSE LET idx == eq.indices[i]
         IN  IF idx >= Len(solutions)
             THEN [eq |-> eq, err |-> "block index out of range"]
             ELSE IF solutions[idx + 1].some
                  THEN ReduceLoop([indices |-> swap_remove(eq.indices, i),
                                   payload |-> xor_in_place(eq.payload,
                                                   solutions[idx + 1].val)],
                                  solutions, i)
                  ELSE ReduceLoop(eq, solutions, i + 1)

\* Mutant of reduce_with_known: the index list is not sorted first.
reduce_with_known_NoSort(eq, solutions) == ReduceLoop(eq, solutions, 1)

reduce_with_known(eq, solutions) ==
    ReduceLoop([indices |-> dedup(sort_unstable(eq.indices)),
                payload |-> eq.payload], solutions, 1)

Position(indices, index) ==
    IF \E p \in 1..Len(indices) : indices[p] = index
    THEN CHOOSE p \in 1..Len(indices) :
            /\ indices[p] = index
            /\ \A q \in 1..(p - 1) : indices[q] # index
    ELSE 0

\* Mutant of RemoveSolved: a solved index is dropped without XOR-ing its value.
RECURSIVE RemoveSolvedNoXor(_, _, _)
RemoveSolvedNoXor(eq, solutions, j) ==
    IF j > Len(eq.indices) THEN eq
    ELSE LET candidate == eq.indices[j]
         IN  IF solutions[candidate + 1].some
             THEN RemoveSolvedNoXor([indices |-> swap_remove(eq.indices, j),
                                     payload |-> eq.payload], solutions, j)
             ELSE RemoveSolvedNoXor(eq, solutions, j + 1)

\* The inner "remove any already solved indices" loop of enqueue_solution.
RECURSIVE RemoveSolved(_, _, _)
RemoveSolved(eq, solutions, j) ==
    IF j > Len(eq.indices) THEN eq
    ELSE LET candidate == eq.indices[j]
         IN  IF solutions[candidate + 1].some
             THEN RemoveSolved([indices |-> swap_remove(eq.indices, j),
                                payload |-> xor_in_place(eq.payload,
                                                solutions[candidate + 1].val)],
                               solutions, j)
             ELSE RemoveSolved(eq, solutions, j + 1)

RECURSIVE EnqueueOuter(_, _)
RECURSIVE EnqueueInner(_, _, _, _, _)
EnqueueOuter(d, queue) ==
    IF queue = <<>> THEN Ok(d)
    ELSE LET item == queue[Len(queue)]
         IN  EnqueueInner(d, SubSeq(queue, 1, Len(queue) - 1),
                          item.index, item.value, 1)

EnqueueInner(d, queue, index, value, i) ==
    IF i > Len(d.equations) THEN EnqueueOuter(d, queue)
    ELSE
      LET eq0 == d.equations[i]
          pos == Position(eq0.indices, index)
          eq1 == IF pos # 0
                 THEN [indices |-> swap_remove(eq0.indices, pos),
                       payload |-> xor_in_place(eq0.payload, value)]
                 ELSE eq0
          eq2 == RemoveSolved(eq1, d.solutions, 1)
          d2  == [d EXCEPT !.equations[i] = eq2]
          d3  == [d EXCEPT !.equations = swap_remove(d2.equations, i)]
      IN  IF eq2.indices = <<>>
          THEN IF NonZero(eq2.payload)
               THEN Err(d2, "inconsistent equations")
               ELSE EnqueueInner(d3, queue, index, value, i)
          ELSE IF Len(eq2.indices) = 1
          THEN LET new_idx == eq2.indices[1]
               IN  IF ~d.solutions[new_idx + 1].some
                   THEN EnqueueInner(
                          [d3 EXCEPT !.solutions[new_idx + 1] = Some(eq2.payload)],
                          Append(queue, [index |-> new_idx, value |-> eq2.payload]),
                          index, value, i)
                   ELSE IF d.solutions[new_idx + 1].val # eq2.payload
                   THEN Err(d3, "conflicting solution")
                   ELSE EnqueueInner(d3, queue, index, value, i)
          ELSE EnqueueInner(d2, queue, index, value, i + 1)

enqueue_solution(d, idx, payload) ==
    EnqueueOuter(d, <<[index |-> idx, value |-> payload]>>)

set_solution(d, idx, payload) ==
    IF idx >= d.metadata.block_count THEN Err(d, "block index out of range")
    ELSE IF Len(payload) # d.metadata.block_len THEN Err(d, "invalid block length")
    ELSE IF d.solutions[idx + 1].some
    THEN IF d.solutions[idx + 1].val # payload
         THEN Err(d, "conflicting solution")
         ELSE Ok(d)
    ELSE enqueue_solution([d EXCEPT !.solutions[idx + 1] = Some(payload)],
                          idx, payload)

RECURSIVE PropagateLoop(_, _)
PropagateLoop(d, i) ==
    IF i > Len(d.equations) THEN Ok(d)
    ELSE
      LET r  == reduce_with_known(d.equations[i], d.solutions)
          d1 == [d EXCEPT !.equations[i] = r.eq]
          d2 == [d EXCEPT !.equations = swap_remove(d1.equations, i)]
      IN  IF r.err # "" THEN Err(d1, r.err)
          ELSE IF r.eq.indices = <<>>
          THEN IF NonZero(r.eq.payload)
               THEN Err(d1, "inconsistent equations")
               ELSE PropagateLoop(d2, i)
          ELSE IF Len(r.eq.indices) = 1
          THEN LET s == set_solution(d2, r.eq.indices[1], r.eq.payload)
               IN  IF s.err # "" THEN s ELSE PropagateLoop(s.dec, i)
          ELSE PropagateLoop(d1, i + 1)

propagate(d) == PropagateLoop(d, 1)

RECURSIVE ConcatBlocks(_)
ConcatBlocks(solutions) ==
    IF solutions = <<>> THEN <<>>
    ELSE Head(solutions).val \o ConcatBlocks(Tail(solutions))

Truncate(s, n) == IF Len(s) > n THEN SubSeq(s, 1, n) ELSE s

\* Mutant of try_finalize: the padding of the last block is not cut off.
try_finalize_NoTruncate(d) ==
    IF \E i \in 1..Len(d.solutions) : ~d.solutions[i].some
    THEN [kind |-> "None", err |-> "", out |-> <<>>]
    ELSE [kind |-> "Some", err |-> "", out |-> ConcatBlocks(d.solutions)]

try_finalize(d) ==
    IF \E i \in 1..Len(d.solutions) : ~d.solutions[i].some
    THEN [kind |-> "None", err |-> "", out |-> <<>>]
    ELSE [kind |-> "Some", err |-> "",
          out |-> Truncate(ConcatBlocks(d.solutions), d.metadata.original_len)]

ResErr(msg) == [kind |-> "Err", err |-> msg, out |-> <<>>]

\* FountainDecoder::receive: the decoder after the call and what it returned.
receive(d, packet) ==
    IF packet.metadata # d.metadata
    THEN [dec |-> d, res |-> ResErr("metadata mismatch")]
    ELSE IF Len(packet.payload) # d.metadata.block_len
    THEN [dec |-> d, res |-> ResErr("invalid payload length")]
    ELSE IF packet.indices = <<>>
    THEN [dec |-> d, res |-> ResErr("packet without indices")]
    ELSE
      LET r == reduce_with_known([indices |-> packet.indices,
                                  payload |-> packet.payload], d.solutions)
      IN  IF r.err # "" THEN [dec |-> d, res |-> ResErr(r.err)]
          ELSE IF r.eq.indices = <<>>
          THEN IF NonZero(r.eq.payload)
               THEN [dec |-> d, res |-> ResErr("inconsistent packet")]
               ELSE [dec |-> d, res |-> try_finalize(d)]
          ELSE
            LET s == IF Len(r.eq.indices) = 1
                     THEN set_solution(d, r.eq.indices[1], r.eq.payload)
                     ELSE Ok([d EXCEPT !.equations = Append(@, r.eq)])
            IN  IF s.err # "" THEN [dec |-> s.dec, res |-> ResErr(s.err)]
                ELSE LET p == propagate(s.dec)
                     IN  IF p.err # ""
                         THEN [dec |-> p.dec, res |-> ResErr(p.err)]
                         ELSE [dec |-> p.dec, res |-> try_finalize(p.dec)]

-----------------------------------------------------------------------------
(* The encoder, a lossy reordering channel and the decoder.                *)
(* original is the caller's buffer, emitted the log of the packets next_packet *)
(* returned, received the set of packets handed to receive so far, lastPkt *)
(* and result the argument and the return value of the latest receive.     *)
(* The channel may deliver an emitted packet at any later time, any number *)
(* of times, or never (loss).                                              *)

\* Values of the components a run does not exercise.
RsIdle == [phase |-> "idle"]

StIdle == [phase |-> "idle"]

CmIdle == [phase |-> "idle"]

NoResult == [kind |-> "Idle", err |-> "", out |-> <<>>]

NoPacket == [seed |-> 0, indices |-> <<>>, payload |-> <<>>,
             metadata |-> FountainMetadata(0, 0, 0)]

FountainInitFor(maxData) ==
    /\ original \in SeqsUpTo(ByteVals, maxData)
    /\ \E block_len \in 1..MaxBlockLen :
          /\ enc = from_bytes(original, block_len)
          /\ dec = FountainDecoder_new(from_bytes(original, block_len).metadata)
    /\ emitted = <<>>
    /\ result = NoResult
    /\ received = {}
    /\ nrecv = 0
    /\ lastPkt = NoPacket
    /\ rs = RsIdle
    /\ st = StIdle
    /\ cm = CmIdle

\* The fountain objects of a run that only exercises another component.
FountainIdle ==
    /\ original = <<>>
    /\ enc = from_bytes(<<>>, 1)
    /\ dec = FountainDecoder_new(from_bytes(<<>>, 1).metadata)
    /\ emitted = <<>>
    /\ result = NoResult
    /\ received = {}
    /\ nrecv = 0
    /\ lastPkt = NoPacket

FountainInit == FountainInitFor(MaxData)

Init == FountainInit

\* next_packet while systematic_index < block_count.
NextPacketSystematic ==
    /\ ~enc.panicked
    /\ enc.systematic_index < enc.metadata.block_count
    /\ LET r == next_packet_systematic(enc)
       IN  /\ enc' = r.enc
           /\ emitted' = Append(emitted, r.packet)
    /\ UNCHANGED <<original, dec, result, received, nrecv, lastPkt, rs, st, cm>>

\* next_packet after the systematic phase, for one outcome of the PRNG.
NextPacketCoded ==
    /\ ~enc.panicked
    /\ enc.systematic_index >= enc.metadata.block_count
    /\ enc.seed < MaxSeed
    /\ \E degree \in sample_degree(enc.metadata.block_count) \ {0} :
       \E chosen \in {c \in SUBSET (0..(enc.metadata.block_count - 1)) :
                         Cardinality(c) = degree} :
          LET r == next_packet_coded(enc, chosen)
          IN  /\ enc' = r.enc
              /\ emitted' = Append(emitted, r.packet)
    /\ UNCHANGED <<original, dec, result, received, nrecv, lastPkt, rs, st, cm>>

\* next_packet when sample_degree panics: the seed has been advanced, no
\* packet is returned and the encoder's thread unwinds.
NextPacketPanic ==
    /\ ~enc.panicked
    /\ enc.systematic_index >= enc.metadata.block_count
    /\ enc.seed < MaxSeed
    /\ 0 \in sample_degree(enc.metadata.block_count)
    /\ enc' = [enc EXCEPT !.seed = (enc.seed + 1) % U64, !.panicked = TRUE]
    /\ UNCHANGED <<original, emitted, dec, result, received, nrecv, lastPkt, rs, st, cm>>

\* The channel delivers an emitted packet to FountainDecoder::receive.
Receive ==
    /\ nrecv < MaxRecv
    /\ \E p \in Range(emitted) :
          LET r == receive(dec, p)
          IN  /\ dec' = r.dec
              /\ result' = r.res
              /\ received' = received \cup {p}
              /\ lastPkt' = p
    /\ nrecv' = nrecv + 1
    /\ UNCHANGED <<original, enc, emitted, rs, st, cm>>

Next ==
    \/ NextPacketSystematic
    \/ NextPacketCoded
    \/ NextPacketPanic
    \/ Receive

Spec == Init /\ [][Next]_vars

-----------------------------------------------------------------------------
(* Properties of the encoder / channel / decoder system (Spec).            *)

\* C1: whatever subsequence of the encoder's packets reaches the decoder, no
\* receive call returns an error, and a returned Some(out) carries exactly the
\* caller's original buffer.
FountainRoundTrip ==
    /\ result.kind # "Err"
    /\ result.kind = "Some" => result.out = original

\* C1 witness: decoding finished on a non-empty buffer although an emitted
\* packet was never delivered and a multi-block packet was used.
FountainRoundTripWitness ==
    /\ result.kind = "Some"
    /\ Len(original) > enc.metadata.block_len
    /\ \E p \in Range(emitted) : p \notin received
    /\ \E p \in received : Len(p.indices) >= 2

\* C6: the i-th packet returned by next_packet, for i < block_count, is the
\* systematic packet {indices = [i], payload = block_i}; a coded packet (one
\* produced after the seed was advanced) only follows all of them.
SystematicFirst ==
    \A i \in 1..Len(emitted) :
        IF i <= enc.metadata.block_count
        THEN /\ emitted[i].indices = <<i - 1>>
             /\ emitted[i].payload = enc.blocks[i]
             /\ emitted[i].seed = 0
        ELSE emitted[i].seed > 0

\* C6 witness: all systematic packets of a multi-block stream and a coded
\* packet have been emitted.
SystematicFirstWitness ==
    /\ enc.metadata.block_count >= 2
    /\ Len(emitted) > enc.metadata.block_count

EqSet(d) == Range(d.equations)

\* C8: a receive call whose packet was already received before returns Ok,
\* and leaves the solved blocks, the set of pending equations and hence the
\* decoded output as they were.
DuplicateTolerance ==
    [][(nrecv' = nrecv + 1 /\ lastPkt' \in received)
         => /\ result'.kind # "Err"
            /\ dec'.solutions = dec.solutions
            /\ EqSet(dec') = EqSet(dec)
            /\ result' = try_finalize(dec)]_vars

\* C8 witness: a packet has been delivered twice while equations are pending.
DuplicateToleranceWitness ==
    /\ nrecv > Cardinality(received)
    /\ Len(dec.equations) >= 1
    /\ \E i \in 1..Len(dec.solutions) : dec.solutions[i].some

\* Exhaustive peeling over a set of packets: substitute the solved blocks and
\* solve any equation left with exactly one unknown, until none is left.
Unknowns(p, sol) == {i \in Range(p.indices) : ~sol[i + 1].some}

\* The payload with the value of every index other than skip XOR-ed in.
RECURSIVE XorKnown(_, _, _, _)
XorKnown(payload, indices, skip, sol) ==
    IF indices = <<>> THEN payload
    ELSE LET h == Head(indices)
             next == IF h = skip THEN payload
                     ELSE [j \in 1..Len(payload) |->
                              Xor8(payload[j], sol[h + 1].val[j])]
         IN  XorKnown(next, Tail(indices), skip, sol)

PeelReady(packets, sol) == {q \in packets : Cardinality(Unknowns(q, sol)) = 1}

PeelOne(pkt, sol) ==
    LET u == CHOOSE x \in Unknowns(pkt, sol) : TRUE
    IN  [sol EXCEPT ![u + 1] = Some(XorKnown(pkt.payload, pkt.indices, u, sol))]

RECURSIVE Peel(_, _)
Peel(packets, sol) ==
    IF PeelReady(packets, sol) = {} THEN sol
    ELSE Peel(packets, PeelOne(CHOOSE q \in PeelReady(packets, sol) : TRUE, sol))

\* C9: after any arrival order of a set of consistent packets the solved
\* blocks and their values are those of exhaustive peeling over that set.
OrderIndependence ==
    LET peeled == Peel(received, [i \in 1..dec.metadata.block_count |-> None])
    IN  /\ DOMAIN peeled = DOMAIN dec.solutions
        /\ \A i \in DOMAIN dec.solutions : dec.solutions[i] = peeled[i]

\* C9 witness: a block is solved that no received packet carried alone, while
\* another block is still unknown.
OrderIndependenceWitness ==
    /\ Cardinality(received) >= 3
    /\ \E i \in 1..Len(dec.solutions) :
          /\ dec.solutions[i].some
          /\ \A p \in received : p.indices # <<i - 1>>
    /\ \E i \in 1..Len(dec.solutions) : ~dec.solutions[i].some

-----------------------------------------------------------------------------
(* The decoder fed by an arbitrary sender (AdvSpec): packets need not come *)
(* from the encoder, so index lists may be empty, unsorted, repeated or    *)
(* out of range, payloads may be wrong or of the wrong length and the     *)
(* metadata may differ.                                                    *)

SeqsOfLen(S, n) == {t \in SeqsUpTo(S, n) : Len(t) = n}

ForgedPackets(m) ==
    {[seed |-> 0, indices |-> idx, payload |-> pl, metadata |-> m] :
        idx \in SeqsUpTo(0..m.block_count, MaxForgedIdx),
        pl \in SeqsOfLen(ByteVals, m.block_len)}
    \cup
    {[seed |-> 0, indices |-> <<0>>, payload |-> pl, metadata |-> m] :
        pl \in {Zeros(m.block_len - 1), Zeros(m.block_len + 1)}}
    \cup
    {[seed |-> 0, indices |-> <<0>>, payload |-> Zeros(m.block_len),
      metadata |-> [m EXCEPT !.original_len = @ + 1]]}

AdvInit == FountainInitFor(MaxAdvData)

\* FountainDecoder::receive called with a packet of the sender's choosing.
ReceiveForged ==
    /\ nrecv < MaxAdvRecv
    /\ \E p \in ForgedPackets(dec.metadata) :
          LET r == receive(dec, p)
          IN  /\ dec' = r.dec
              /\ result' = r.res
              /\ received' = received \cup {p}
              /\ lastPkt' = p
    /\ nrecv' = nrecv + 1
    /\ UNCHANGED <<original, enc, emitted, rs, st, cm>>

AdvNext == ReceiveForged

AdvSpec == AdvInit /\ [][AdvNext]_vars

\* C7: a receive call that returns an error leaves the solved blocks and the
\* pending equations exactly as they were before the call.
ErrorLeavesDecoderUnchanged ==
    [][(nrecv' = nrecv + 1 /\ result'.kind = "Err")
         => (dec'.solutions = dec.solutions /\ dec'.equations = dec.equations)]_vars

\* What a call of receive is handed, judged on the decoder before the call.
PacketMalformed(d, p) ==
    \/ p.metadata # d.metadata
    \/ Len(p.payload) # d.metadata.block_len
    \/ p.indices = <<>>
    \/ \E i \in 1..Len(p.indices) : p.indices[i] >= d.metadata.block_count

AllSolved(d, p) == \A i \in 1..Len(p.indices) : d.solutions[p.indices[i] + 1].some

RECURSIVE XorOfSolved(_, _, _)
\* The XOR of the solved blocks named by the set of indices S.
XorOfSolved(d, S, acc) ==
    IF S = {} THEN acc
    ELSE LET i == CHOOSE x \in S : TRUE
         IN  XorOfSolved(d, S \ {i}, xor_in_place(acc, d.solutions[i + 1].val))

\* C11: receive returns an error and solves no block when the packet's
\* metadata differs, its payload length is not block_len, its index list is
\* empty or an index is >= block_count; a well-formed packet all of whose
\* indices are solved is accepted exactly when its payload is the XOR of
\* those blocks, and is otherwise rejected as inconsistent.
PacketValidation ==
    [][nrecv' = nrecv + 1 =>
         /\ PacketMalformed(dec, lastPkt')
              => (result'.kind = "Err" /\ dec'.solutions = dec.solutions)
         /\ (~PacketMalformed(dec, lastPkt') /\ AllSolved(dec, lastPkt'))
              => IF lastPkt'.payload =
                      XorOfSolved(dec, Range(lastPkt'.indices),
                                  Zeros(dec.metadata.block_len))
                 THEN result'.kind # "Err"
                 ELSE result'.err = "inconsistent packet"]_vars

\* Both blocks were solved by single-index packets, then a packet naming
\* both with a non-zero payload was accepted.
PacketValidationWitness ==
    /\ nrecv = 3
    /\ Cardinality(received) = 3
    /\ lastPkt.indices = <<0, 1>>
    /\ NonZero(lastPkt.payload)
    /\ result.kind = "Some"
    /\ \E p \in received : p.indices = <<0>>
    /\ \E p \in received : p.indices = <<1>>

-----------------------------------------------------------------------------
(* The sender's loop over a lossy channel, run without a bound (LoopSpec): *)
(* one step is one iteration, next_packet followed by the loss of the      *)
(* packet or by receive; the loop ends when receive returns Some.  The     *)
(* logs of Spec are not kept here.  A packet that would leave more than    *)
(* MaxEq pending equations is always lost, which keeps the decoder finite. *)

LoopRunning == ~enc.panicked /\ result.kind # "Some"

IterSystematic(lost) ==
    /\ LoopRunning
    /\ enc.systematic_index < enc.metadata.block_count
    /\ LET r == next_packet_systematic(enc)
           rc == receive(dec, r.packet)
       IN  /\ enc' = r.enc
           /\ IF lost THEN UNCHANGED <<dec, result>>
              ELSE dec' = rc.dec /\ result' = rc.res
    /\ UNCHANGED <<original, emitted, received, nrecv, lastPkt, rs, st, cm>>

IterCoded(chosen, lost) ==
    /\ LoopRunning
    /\ enc.systematic_index >= enc.metadata.block_count
    /\ chosen \subseteq 0..(enc.metadata.block_count - 1)
    /\ Cardinality(chosen) \in sample_degree(enc.metadata.block_count) \ {0}
    /\ LET r == next_packet_coded(enc, chosen)
           rc == receive(dec, r.packet)
       IN  /\ enc' = r.enc
           /\ IF lost THEN UNCHANGED <<dec, result>>
              ELSE /\ Len(rc.dec.equations) <= MaxEq
                   /\ dec' = rc.dec
                   /\ result' = rc.res
    /\ UNCHANGED <<original, emitted, received, nrecv, lastPkt, rs, st, cm>>

IterPanic ==
    /\ LoopRunning
    /\ enc.systematic_index >= enc.metadata.block_count
    /\ 0 \in sample_degree(enc.metadata.block_count)
    /\ enc' = [enc EXCEPT !.seed = (enc.seed + 1) % U64, !.panicked = TRUE]
    /\ UNCHANGED <<original, emitted, dec, result, received, nrecv, lastPkt, rs, st, cm>>

IndexChoices == (SUBSET (0..(MaxData - 1))) \ {{}}

LoopNext ==
    \/ \E lost \in BOOLEAN : IterSystematic(lost)
    \/ \E chosen \in IndexChoices, lost \in BOOLEAN : IterCoded(chosen, lost)
    \/ IterPanic

LoopSpec == FountainInit /\ [][LoopNext]_vars

\* The encoder can hand out one more packet.
CanIterate ==
    ENABLED (IterSystematic(TRUE) \/ \E chosen \in IndexChoices : IterCoded(chosen, TRUE))

\* C10: decoding never gets permanently stuck with unsolved blocks: as long
\* as receive has not returned Some with the complete original data, the
\* stream goes on, so that the packets a block needs can still arrive.
FountainConvergence ==
    \/ result.kind = "Some" /\ result.out = original
    \/ CanIterate

-----------------------------------------------------------------------------
(* Reed-Solomon over GF(2^8), as provided by reed_solomon_erasure::galois_8. *)
(* The field is GF(2)[x] / (x^8 + x^4 + x^3 + x^2 + 1); the coding matrix is *)
(* Vandermonde(n, k) times the inverse of its top k rows, so that shard r of *)
(* a codeword holds, byte by byte, the value at point r of the polynomial of *)
(* degree < k that takes the data shards' bytes at points 0 .. k-1.          *)

\* Low byte of the field polynomial 0x11D.
GfPoly == 29

xtime(a) == IF 2 * a >= 256 THEN Xor8((2 * a) % 256, GfPoly) ELSE 2 * a

RECURSIVE GfShiftMul(_, _)
\* Carry-less product reduced by the field polynomial, bit by bit.
GfShiftMul(a, b) ==
    IF b = 0 THEN 0
    ELSE Xor8(IF b % 2 = 1 THEN a ELSE 0, GfShiftMul(xtime(a), b \div 2))

RECURSIVE GfPowerOfTwo(_)
\* 2^e in the field; 2 generates the multiplicative group.
GfPowerOfTwo(e) ==
    IF e = 0 THEN 1
    ELSE IF e % 2 = 1 THEN xtime(GfPowerOfTwo(e - 1))
    ELSE LET h == GfPowerOfTwo(e \div 2) IN GfShiftMul(h, h)

\* EXP_TABLE and LOG_TABLE of galois_8 (position e + 1 holds 2^e).
EXP_TABLE == [p \in 1..255 |-> GfPowerOfTwo(p - 1)]

LOG_TABLE == [a \in 1..255 |-> CHOOSE e \in 0..254 : EXP_TABLE[e + 1] = a]

gf_mul(a, b) ==
    IF a = 0 \/ b = 0 THEN 0
    ELSE EXP_TABLE[((LOG_TABLE[a] + LOG_TABLE[b]) % 255) + 1]

\* a / b for b # 0.
gf_div(a, b) ==
    IF a = 0 THEN 0
    ELSE EXP_TABLE[((LOG_TABLE[a] + 255 - LOG_TABLE[b]) % 255) + 1]

RECURSIVE GfProd(_, _, _)
\* Product over j in pts \ {i} of (x - j) / (i - j); subtraction is xor.
GfProd(pts, i, x) ==
    IF pts = {} THEN 1
    ELSE LET j == CHOOSE p \in pts : TRUE
         IN  IF j = i THEN GfProd(pts \ {j}, i, x)
             ELSE gf_mul(gf_div(Xor8(x, j), Xor8(i, j)), GfProd(pts \ {j}, i, x))

RECURSIVE GfCombine(_, _, _, _)
\* Byte b of the combination of the shards at the points rest, weighted by coef.
GfCombine(shards, coef, rest, b) ==
    IF rest = {} THEN 0
    ELSE LET i == CHOOSE p \in rest : TRUE
         IN  Xor8(gf_mul(shards[i + 1][b], coef[i]),
                  GfCombine(shards, coef, rest \ {i}, b))

\* The shard at point x computed from the shards (plain byte vectors, 1-based
\* position r+1 for point r) at the k points pts.
ShardAt(shards, pts, x, shard_len) ==
    LET coef == [i \in pts |-> GfProd(pts, i, x)]
    IN  [b \in 1..shard_len |-> GfCombine(shards, coef, pts, b)]

RsOk(v) == [kind |-> "Ok", err |-> "", val |-> v]

RsErr(e) == [kind |-> "Err", err |-> e, val |-> <<>>]

\* ReedSolomon::new(data_shards, parity_shards).
ReedSolomon_new(data_shards, parity_shards) ==
    IF data_shards = 0 THEN RsErr("TooFewDataShards")
    ELSE IF parity_shards = 0 THEN RsErr("TooFewParityShards")
    ELSE IF data_shards + parity_shards > 256 THEN RsErr("TooManyShards")
    ELSE RsOk([data_shard_count |-> data_shards,
               parity_shard_count |-> parity_shards,
               total_shard_count |-> data_shards + parity_shards])

\* ReedSolomon::encode on k+m equally long shards: the parity shards are
\* overwritten by the code's parity of the data shards.
ReedSolomon_encode(codec, shards) ==
    IF Len(shards) < codec.total_shard_count THEN RsErr("TooFewShards")
    ELSE IF Len(shards) > codec.total_shard_count THEN RsErr("TooManyShards")
    ELSE IF Len(shards[1]) = 0 THEN RsErr("EmptyShard")
    ELSE IF \E i \in 1..Len(shards) : Len(shards[i]) # Len(shards[1])
         THEN RsErr("IncorrectShardSize")
    ELSE RsOk([i \in 1..Len(shards) |->
                 IF i <= codec.data_shard_count THEN shards[i]
                 ELSE ShardAt(shards, 0..(codec.data_shard_count - 1), i - 1,
                              Len(shards[1]))])

RECURSIVE FirstPresent(_, _, _)
\* The first n points, in index order from point r, whose slot is present.
FirstPresent(slots, r, n) ==
    IF n = 0 \/ r >= Len(slots) THEN {}
    ELSE IF slots[r + 1] # None THEN {r} \cup FirstPresent(slots, r + 1, n - 1)
    ELSE FirstPresent(slots, r + 1, n)

\* ReedSolomon::reconstruct on k+m optional shards: every absent slot is
\* rebuilt from the first k present ones; with every slot present there is
\* nothing to do and the slots are returned as they are.
ReedSolomon_reconstruct(codec, slots) ==
    LET present == {i \in 1..Len(slots) : slots[i] # None}
        first   == CHOOSE i \in present : \A j \in present : i <= j
        len     == Len(slots[first].val)
    IN  IF Len(slots) < codec.total_shard_count THEN RsErr("TooFewShards")
        ELSE IF Len(slots) > codec.total_shard_count THEN RsErr("TooManyShards")
        ELSE IF present = {} THEN RsErr("TooFewShardsPresent")
        ELSE IF len = 0 THEN RsErr("EmptyShard")
        ELSE IF \E i \in present : Len(slots[i].val) # len
             THEN RsErr("IncorrectShardSize")
        ELSE IF Cardinality(present) = codec.total_shard_count THEN RsOk(slots)
        ELSE IF Cardinality(present) < codec.data_shard_count
             THEN RsErr("TooFewShardsPresent")
        ELSE LET pts   == FirstPresent(slots, 0, codec.data_shard_count)
                 plain == [i \in 1..Len(slots) |->
                             IF slots[i] # None THEN slots[i].val ELSE <<>>]
             IN  RsOk([i \in 1..Len(slots) |->
                         IF slots[i] # None THEN slots[i]
                         ELSE Some(ShardAt(plain, pts, i - 1, len))])

-----------------------------------------------------------------------------
(* s3p-core erasure helpers.                                               *)

ShardMetadata(data_shards, parity_shards, shard_len, original_len) ==
    [data_shards |-> data_shards, parity_shards |-> parity_shards,
     shard_len |-> shard_len, original_len |-> original_len]

total_shards(meta) == meta.data_shards + meta.parity_shards

\* data.chunks(shard_len) copied into the first shards of a zeroed shard set.
FillShards(data, shard_len, count) ==
    [i \in 1..count |->
        [b \in 1..shard_len |->
            LET pos == (i - 1) * shard_len + b
            IN  IF pos <= Len(data) THEN data[pos] ELSE 0]]

\* encode(data, data_shards, parity_shards); data is not empty.
encode(data, data_shards, parity_shards) ==
    LET codec     == ReedSolomon_new(data_shards, parity_shards)
        shard_len == CeilDiv(Len(data), data_shards)
        shards    == FillShards(data, shard_len, data_shards + parity_shards)
        coded     == ReedSolomon_encode(codec.val, shards)
    IN  IF codec.kind = "Err" THEN codec
        ELSE IF coded.kind = "Err" THEN coded
        ELSE RsOk([meta |-> ShardMetadata(data_shards, parity_shards,
                                          shard_len, Len(data)),
                   shards |-> coded.val])

RECURSIVE ConcatShards(_, _)
ConcatShards(slots, n) ==
    IF n = 0 THEN <<>>
    ELSE ConcatShards(slots, n - 1)
           \o (IF slots[n] # None THEN slots[n].val ELSE <<>>)

\* Every absent slot becomes a present all-zero shard.
FillMissing(meta, shards) ==
    [i \in 1..Len(shards) |->
        IF shards[i] = None THEN Some(Zeros(meta.shard_len)) ELSE shards[i]]

\* reconstruct(meta, shards).
reconstruct(meta, shards) ==
    LET codec  == ReedSolomon_new(meta.data_shards, meta.parity_shards)
        filled == FillMissing(meta, shards)
        rebuilt == ReedSolomon_reconstruct(codec.val, filled)
    IN  IF Len(shards) # total_shards(meta) THEN RsErr("TooFewShards")
        ELSE IF codec.kind = "Err" THEN codec
        ELSE IF rebuilt.kind = "Err" THEN rebuilt
        ELSE RsOk(Truncate(ConcatShards(rebuilt.val, meta.data_shards),
                           meta.original_len))

-----------------------------------------------------------------------------
(* Erasure round trip: encode a buffer, lose shards, reconstruct.          *)

MaxBuf == 3

MaxK == 2

MaxM == 2

RSInit ==
    /\ FountainIdle
    /\ st = StIdle
    /\ cm = CmIdle
    /\ \E buf \in SeqsUpTo(ByteVals, MaxBuf) \ {<<>>}, k \in 1..MaxK, m \in 1..MaxM :
          rs = [phase |-> "new", buf |-> buf, k |-> k, m |-> m,
                meta |-> ShardMetadata(k, m, 0, 0), slots |-> <<>>,
                out |-> RsErr("")]

\* let blob = encode(&data, k, m); every shard of the blob starts present.
RSEncode ==
    /\ rs.phase = "new"
    /\ LET blob == encode(rs.buf, rs.k, rs.m)
       IN  /\ blob.kind = "Ok"
           /\ rs' = [rs EXCEPT !.phase = "encoded",
                               !.meta = blob.val.meta,
                               !.slots = [i \in 1..Len(blob.val.shards) |->
                                            Some(blob.val.shards[i])]]
    /\ UNCHANGED <<original, enc, emitted, dec, result, received, nrecv,
                   lastPkt, st, cm>>

\* shards[idx] = None.
RSDropShard ==
    /\ rs.phase = "encoded"
    /\ \E idx \in 1..Len(rs.slots) :
          /\ rs.slots[idx] # None
          /\ rs' = [rs EXCEPT !.slots[idx] = None]
    /\ UNCHANGED <<original, enc, emitted, dec, result, received, nrecv,
                   lastPkt, st, cm>>

\* reconstruct(&blob.meta, shards).
RSReconstruct ==
    /\ rs.phase = "encoded"
    /\ rs' = [rs EXCEPT !.phase = "done", !.out = reconstruct(rs.meta, rs.slots)]
    /\ UNCHANGED <<original, enc, emitted, dec, result, received, nrecv,
                   lastPkt, st, cm>>

\* shards.pop(): the caller hands over fewer slots than the blob has shards.
RSPopSlot ==
    /\ rs.phase = "encoded"
    /\ Len(rs.slots) = total_shards(rs.meta)
    /\ rs' = [rs EXCEPT !.slots = SubSeq(@, 1, Len(@) - 1)]
    /\ UNCHANGED <<original, enc, emitted, dec, result, received, nrecv,
                   lastPkt, st, cm>>

RSNext == RSEncode \/ RSDropShard \/ RSPopSlot \/ RSReconstruct

RSSpec == RSInit /\ [][RSNext]_vars

RsMissing == {i \in 1..Len(rs.slots) : rs.slots[i] = None}

\* C2: after encode(buf, k, m) with k >= 1, m >= 1 and a non-empty buf,
\* replacing at most m shards (data or parity) by None and calling reconstruct
\* returns Ok with a buffer equal to buf.
RSRoundTripWithLoss ==
    (rs.phase = "done" /\ Len(rs.slots) = rs.k + rs.m
                       /\ Cardinality(RsMissing) <= rs.m)
        => (rs.out.kind = "Ok" /\ rs.out.val = rs.buf)

\* C12: reconstruct returns an error, and no data buffer, whenever fewer than
\* k of the slots are present and whenever the number of slots is not k+m.
RSInsufficientShards ==
    (rs.phase = "done"
       /\ (Len(rs.slots) - Cardinality(RsMissing) < rs.k
             \/ Len(rs.slots) # rs.k + rs.m))
        => rs.out.kind = "Err"

-----------------------------------------------------------------------------
(* Committee verification of a signed receipt (poc).                       *)

MaxSigs == 3

MaxQuorum == 3

\* Committee members; a member's verifying key is named after the member.
MemberIds == {"member-0", "member-1"}

\* Identities that appear in envelopes: the members and one outsider.
SignerIds == MemberIds \cup {"mallory"}

\* Sha256 of a byte string: a value that determines the bytes.
Sha256(bytes) == <<"sha256", bytes>>

\* b"accepted" and b"rejected".
TagAccepted == <<97, 99, 99, 101, 112, 116, 101, 100>>

TagRejected == <<114, 101, 106, 101, 99, 116, 101, 100>>

\* Ledger mutations, named by a digit.
LedgerMutations == {1, 2}

\* serde_json::to_vec(mutation): a JSON object, "{" .. "}".
serde_json_to_vec(mutation) == <<123, 48 + mutation, 125>>

\* The strings "a", "ab", "bc" and "c" as UTF-8 bytes.
NoteStrings == {<<97>>, <<97, 98>>, <<98, 99>>, <<99>>}

Accepted(mutations, notes) ==
    [type |-> "accepted", mutations |-> mutations, notes |-> notes,
     reason |-> <<>>]

Rejected(reason) ==
    [type |-> "rejected", mutations |-> <<>>, notes |-> <<>>, reason |-> reason]

RECURSIVE ExtendAll(_, _)
\* buf after buf.extend(piece) for each piece in order.
ExtendAll(buf, pieces) ==
    IF pieces = <<>> THEN buf
    ELSE ExtendAll(buf \o Head(pieces), Tail(pieces))

\* (n as u64).to_le_bytes() for n below 256.
LenLeBytes(n) == <<n, 0, 0, 0, 0, 0, 0, 0>>

\* ReceiptOutcome::commitment(&self).
commitment(outcome) ==
    IF outcome.type = "accepted"
    THEN ExtendAll(
            ExtendAll(TagAccepted \o LenLeBytes(Len(outcome.mutations)),
                      [i \in 1..Len(outcome.mutations) |->
                          serde_json_to_vec(outcome.mutations[i])]),
            outcome.notes)
    ELSE TagRejected \o outcome.reason

ReceiptCore(outcome) ==
    [scid |-> <<115>>, merkle_root |-> [i \in 1..32 |-> 1],
     ct_hash |-> [i \in 1..32 |-> 2], outcome |-> outcome]

\* The receipts put before the committee.
ReceiptCores ==
    {ReceiptCore(Accepted(<<1>>, <<>>)), ReceiptCore(Rejected(<<99>>))}

\* ReceiptCore::digest(&self).
digest(core) ==
    Sha256(core.scid \o core.merkle_root \o core.ct_hash
              \o commitment(core.outcome))

\* Length in bytes of an ed25519 signature.
SIGNATURE_LENGTH == 64

\* The bytes signing_key(of).sign(msg) produces, and byte strings of another
\* length.
Sign(of, msg) == [len |-> SIGNATURE_LENGTH, by |-> of, over |-> msg]

SignatureBytes ==
    {Sign(id, digest(c)) : id \in MemberIds, c \in ReceiptCores}
        \cup {[len |-> SIGNATURE_LENGTH - 1, by |-> "", over |-> <<>>]}

MemberSignature(member_id, signature) ==
    [member_id |-> member_id, signature |-> signature]

CommitteeConfig_new(members, quorum) ==
    [quorum |-> quorum, members |-> [id \in members |-> id]]

\* Signature::from_slice succeeds on exactly 64 bytes.
Signature_from_slice(bytes) == bytes.len = SIGNATURE_LENGTH

\* key.verify_strict(&digest, &signature).
verify_strict(key, msg, signature) == signature.by = key /\ signature.over = msg

CmOk == [kind |-> "Ok", member |-> "", expected |-> 0, actual |-> 0]

CmErr(kind, member) == [kind |-> kind, member |-> member, expected |-> 0, actual |-> 0]

InsufficientQuorum(expected, actual) ==
    [kind |-> "InsufficientQuorum", member |-> "", expected |-> expected,
     actual |-> actual]

\* verified.insert(id) on the BTreeSet, kept as a duplicate-free sequence.
BTreeSet_insert_NoDedup(verified, id) == Append(verified, id)

BTreeSet_insert(verified, id) ==
    IF id \in Range(verified) THEN verified ELSE Append(verified, id)

\* The checks of one entry of committee.signatures, in source order.
CheckEntry(cfg, msg, sig) ==
    IF sig.member_id \notin DOMAIN cfg.members
        THEN CmErr("UnknownMember", sig.member_id)
    ELSE IF ~Signature_from_slice(sig.signature)
        THEN CmErr("MalformedSignature", sig.member_id)
    ELSE IF ~verify_strict(cfg.members[sig.member_id], msg, sig.signature)
        THEN CmErr("InvalidSignature", sig.member_id)
    ELSE CmOk

RECURSIVE SignatureLoopSkipBad(_, _, _, _, _)
SignatureLoopSkipBad(cfg, msg, sigs, i, verified) ==
    IF i > Len(sigs) THEN [err |-> CmOk, verified |-> verified]
    ELSE IF CheckEntry(cfg, msg, sigs[i]).kind # "Ok"
         THEN SignatureLoopSkipBad(cfg, msg, sigs, i + 1, verified)
         ELSE SignatureLoopSkipBad(cfg, msg, sigs, i + 1,
                                   BTreeSet_insert(verified, sigs[i].member_id))

RECURSIVE SignatureLoop(_, _, _, _, _)
\* for sig in &receipt.committee.signatures { ... }: the first failing entry
\* ends verify with its error.
SignatureLoop(cfg, msg, sigs, i, verified) ==
    IF i > Len(sigs) THEN [err |-> CmOk, verified |-> verified]
    ELSE LET checked == CheckEntry(cfg, msg, sigs[i])
         IN  IF checked.kind # "Ok" THEN [err |-> checked, verified |-> verified]
             ELSE SignatureLoop(cfg, msg, sigs, i + 1,
                                BTreeSet_insert(verified, sigs[i].member_id))

RECURSIVE ParticipantLoop(_, _, _)
\* for member in &agg.participants { ... }.
ParticipantLoop(cfg, participants, i) ==
    IF i > Len(participants) THEN CmOk
    ELSE IF participants[i] \notin DOMAIN cfg.members
         THEN CmErr("UnknownMember", participants[i])
    ELSE ParticipantLoop(cfg, participants, i + 1)

\* Mutant of verify: aggregated participants are counted toward the quorum.
verify_CountAggregated(cfg, receipt) ==
    LET msg    == digest(receipt.core)
        looped == SignatureLoop(cfg, msg, receipt.committee.signatures, 1, <<>>)
        agg    == IF receipt.committee.aggregated # None
                  THEN ParticipantLoop(cfg, receipt.committee.aggregated.val, 1)
                  ELSE CmOk
        count  == Len(looped.verified) + Len(receipt.committee.aggregated.val)
    IN  IF looped.err.kind # "Ok" THEN looped.err
        ELSE IF agg.kind # "Ok" THEN agg
        ELSE IF count < cfg.quorum
             THEN InsufficientQuorum(cfg.quorum, count)
        ELSE CmOk

\* CommitteeConfig::verify(&self, receipt).
verify(cfg, receipt) ==
    LET msg    == digest(receipt.core)
        looped == SignatureLoop(cfg, msg, receipt.committee.signatures, 1, <<>>)
        agg    == IF receipt.committee.aggregated # None
                  THEN ParticipantLoop(cfg, receipt.committee.aggregated.val, 1)
                  ELSE CmOk
    IN  IF looped.err.kind # "Ok" THEN looped.err
        ELSE IF agg.kind # "Ok" THEN agg
        ELSE IF Len(looped.verified) < cfg.quorum
             THEN InsufficientQuorum(cfg.quorum, Len(looped.verified))
        ELSE CmOk

\* CommitteeEnvelope::new().
CommitteeEnvelope_new == [signatures |-> <<>>, aggregated |-> None]

NotVerified == [kind |-> "Pending", member |-> "", expected |-> 0, actual |-> 0]

CommitteeInit ==
    /\ FountainIdle
    /\ rs = RsIdle
    /\ st = StIdle
    /\ \E quorum \in 0..MaxQuorum, core \in ReceiptCores :
          cm = [phase |-> "open",
                config |-> CommitteeConfig_new(MemberIds, quorum),
                receipt |-> [core |-> core, committee |-> CommitteeEnvelope_new],
                out |-> NotVerified]

\* envelope.signatures.push(MemberSignature { member_id, signature }).
PushSignature ==
    /\ cm.phase = "open"
    /\ Len(cm.receipt.committee.signatures) < MaxSigs
    /\ \E id \in SignerIds, bytes \in SignatureBytes :
          cm' = [cm EXCEPT !.receipt.committee.signatures =
                               Append(@, MemberSignature(id, bytes))]
    /\ UNCHANGED <<original, enc, emitted, dec, result, received, nrecv,
                   lastPkt, rs, st>>

\* envelope.aggregated = Some(AggregatedSignature { participants, .. }).
SetAggregated ==
    /\ cm.phase = "open"
    /\ cm.receipt.committee.aggregated = None
    /\ \E participants \in {<<>>, <<"member-0">>, <<"member-1", "mallory">>} :
          cm' = [cm EXCEPT !.receipt.committee.aggregated = Some(participants)]
    /\ UNCHANGED <<original, enc, emitted, dec, result, received, nrecv,
                   lastPkt, rs, st>>

\* committee.verify(&receipt).
Verify ==
    /\ cm.phase = "open"
    /\ cm' = [cm EXCEPT !.phase = "verified",
                        !.out = verify(cm.config, cm.receipt)]
    /\ UNCHANGED <<original, enc, emitted, dec, result, received, nrecv,
                   lastPkt, rs, st>>

CommitteeNext == PushSignature \/ SetAggregated \/ Verify

CommitteeSpec == CommitteeInit /\ [][CommitteeNext]_vars

\* What the claims speak of, stated on the receipt without running verify.
CmSigs == cm.receipt.committee.signatures

EntryGood(sig) ==
    /\ sig.member_id \in MemberIds
    /\ sig.signature.len = SIGNATURE_LENGTH
    /\ sig.signature.by = sig.member_id
    /\ sig.signature.over = digest(cm.receipt.core)

ValidSigners == {CmSigs[i].member_id : i \in {j \in 1..Len(CmSigs) : EntryGood(CmSigs[j])}}

BadEntries == {i \in 1..Len(CmSigs) : ~EntryGood(CmSigs[i])}

AggregatedKnown ==
    \/ cm.receipt.committee.aggregated = None
    \/ Range(cm.receipt.committee.aggregated.val) \subseteq MemberIds

QuorumOutcome ==
    IF Cardinality(ValidSigners) >= cm.config.quorum THEN CmOk
    ELSE InsufficientQuorum(cm.config.quorum, Cardinality(ValidSigners))

\* C4 as stated: verify returns Ok if and only if the number of distinct
\* members with a valid signature over the receipt digest is >= quorum, and
\* otherwise returns InsufficientQuorum{expected = quorum, actual = count}.
CommitteeQuorum ==
    cm.phase = "verified" => cm.out = QuorumOutcome

\* C4, amended: when every entry of committee.signatures is a well-formed,
\* verifying signature of a member and every aggregated participant is a
\* member, verify returns Ok if and only if the number of distinct signing
\* members is >= quorum, and InsufficientQuorum{quorum, count} otherwise.
CommitteeQuorumAmended ==
    (cm.phase = "verified" /\ BadEntries = {} /\ AggregatedKnown)
        => cm.out = QuorumOutcome

\* A member signs twice and is counted once, leaving the quorum unmet.
CommitteeQuorumWitness ==
    /\ cm.phase = "verified"
    /\ BadEntries = {}
    /\ AggregatedKnown
    /\ Len(CmSigs) = 3
    /\ Cardinality(ValidSigners) = 2
    /\ cm.config.quorum = 3
    /\ cm.out = InsufficientQuorum(3, 2)

\* C19: the aggregated field is advisory.  verify returns what it returns for
\* the same receipt without the field, except that it returns UnknownMember
\* for a listed participant that is not a member; participants never count
\* toward the quorum, so Ok needs a quorum of distinct valid signers and a
\* receipt with an aggregated signature only is not accepted.
AggregatedAdvisory ==
    cm.phase = "verified" =>
        LET bare == verify(cm.config,
                           [cm.receipt EXCEPT !.committee.aggregated = None])
            agg  == cm.receipt.committee.aggregated
        IN  /\ IF AggregatedKnown \/ bare.kind \notin {"Ok", "InsufficientQuorum"}
               THEN cm.out = bare
               ELSE \E n \in 1..Len(agg.val) :
                       /\ agg.val[n] \notin MemberIds
                       /\ cm.out = CmErr("UnknownMember", agg.val[n])
            /\ cm.out = CmOk => Cardinality(ValidSigners) >= cm.config.quorum
            /\ (agg # None /\ CmSigs = <<>> /\ cm.config.quorum > 0)
                  => cm.out # CmOk

\* A receipt that carries only an aggregated signature listing a member was
\* verified against a quorum of one and rejected.
AggregatedAdvisoryWitness ==
    /\ cm.phase = "verified"
    /\ CmSigs = <<>>
    /\ cm.receipt.committee.aggregated = Some(<<"member-0">>)
    /\ cm.config.quorum = 1
    /\ cm.out = InsufficientQuorum(1, 0)

FirstBad == CHOOSE i \in BadEntries : \A j \in BadEntries : i <= j

EntryError(sig) ==
    IF sig.member_id \notin MemberIds THEN "UnknownMember"
    ELSE IF sig.signature.len # SIGNATURE_LENGTH THEN "MalformedSignature"
    ELSE "InvalidSignature"

\* C5: if any entry of committee.signatures names a non-member, is malformed
\* or does not verify, verify rejects with UnknownMember / MalformedSignature /
\* InvalidSignature for the first such entry in list order, and never with
\* InsufficientQuorum or Ok, however many other entries are valid.
RejectionPrecedence ==
    (cm.phase = "verified" /\ BadEntries # {})
        => /\ cm.out.kind = EntryError(CmSigs[FirstBad])
           /\ cm.out.member = CmSigs[FirstBad].member_id

\* Two valid entries of distinct members meet the quorum, and a later entry
\* that does not verify still decides the outcome.
RejectionPrecedenceWitness ==
    /\ cm.phase = "verified"
    /\ Len(CmSigs) = 3
    /\ BadEntries = {3}
    /\ Cardinality(ValidSigners) >= cm.config.quorum
    /\ cm.config.quorum = 2
    /\ cm.out.kind = "InvalidSignature"

-----------------------------------------------------------------------------
(* AEAD envelope and Reed-Solomon helpers used by the command line tool.   *)
(* An authenticated cipher is modelled as a keystream mask followed by a   *)
(* tag computed from the key, the associated data, the nonce and the       *)
(* plaintext.                                                              *)

\* Bytes of the authenticator appended to a ciphertext.
TagLen == 16

\* Bytes of a nonce.
NonceLen == 24

RECURSIVE Weigh(_, _)
\* A position-weighted checksum of the first n bytes.
Weigh(bytes, n) ==
    IF n = 0 THEN 0 ELSE (Weigh(bytes, n - 1) + n * bytes[n]) % 256

KeySchedule_derive(ikm, salt) == [key |-> (ikm * 16 + salt) % 256]

\* Byte i of the keystream, from a digest w of the nonce.
Keystream(ks, w, i) == (ks.key * 31 + w * 7 + i * 13) % 256

Mask(ks, nonce, bytes) ==
    LET w == Weigh(nonce, Len(nonce))
    IN  [i \in 1..Len(bytes) |-> Xor8(bytes[i], Keystream(ks, w, i))]

Tag(ks, aad, nonce, plaintext) ==
    LET w == (ks.key * 17 + aad * 5 + Weigh(nonce, Len(nonce)) * 3
                + Weigh(plaintext, Len(plaintext))) % 256
    IN  [j \in 1..TagLen |->
            IF j = 1 THEN ks.key
            ELSE IF j = 2 THEN Len(plaintext) % 256
            ELSE IF j - 2 <= Len(plaintext) THEN plaintext[j - 2]
            ELSE (w + j * (Len(plaintext) + 1)) % 256]

\* seal_with_nonce(KS, aad, nonce, plaintext) -> ct.
seal_with_nonce(ks, aad, nonce, plaintext) ==
    Mask(ks, nonce, plaintext) \o Tag(ks, aad, nonce, plaintext)

\* open(KS, aad, nonce, ct) -> plaintext | AuthError.
open(ks, aad, nonce, ct) ==
    IF Len(ct) < TagLen THEN RsErr("AuthError")
    ELSE LET body == SubSeq(ct, 1, Len(ct) - TagLen)
             tag  == SubSeq(ct, Len(ct) - TagLen + 1, Len(ct))
             pt   == Mask(ks, nonce, body)
             want == Tag(ks, aad, nonce, pt)
         IN  IF \A j \in 1..TagLen : want[j] = tag[j] THEN RsOk(pt)
             ELSE RsErr("AuthError")

\* encode(buf, k, m) -> shards[k+m].
rs_encode(buf, k, m) ==
    LET codec     == ReedSolomon_new(k, m)
        shard_len == CeilDiv(Len(buf), k)
        coded     == ReedSolomon_encode(codec.val,
                                        FillShards(buf, shard_len, k + m))
    IN  IF codec.kind = "Err" THEN codec ELSE coded

\* reconstruct(shards_opt[k+m], k, m) -> buf[k * shard_len]: needs at least k
\* present slots, rebuilds the absent ones and concatenates the first k.
rs_reconstruct(shards_opt, k, m) ==
    LET codec   == ReedSolomon_new(k, m)
        present == {i \in 1..Len(shards_opt) : shards_opt[i] # None}
        rebuilt == ReedSolomon_reconstruct(codec.val, shards_opt)
    IN  IF codec.kind = "Err" THEN codec
        ELSE IF Cardinality(present) < k THEN RsErr("TooFewShardsPresent")
        ELSE IF rebuilt.kind = "Err" THEN rebuilt
        ELSE RsOk(ConcatShards(rebuilt.val, k))

-----------------------------------------------------------------------------
(* Stream RS profile: pack-stream / unpack-stream.                         *)

MaxFile == 3

MaxChunk == 2

MaxStreamK == 2

MaxStreamM == 2

MaxDamage == 3
MaxCorrupt == 1

\* Key material offered on the command line.
Ikms == {1, 2}

NonceBases == {[i \in 1..NonceLen |-> 255 - i]}

\* hex::encode: two digits per byte, high digit first.
hex_encode(b) ==
    [i \in 1..(2 * Len(b)) |->
        IF i % 2 = 1 THEN b[(i + 1) \div 2] \div 16 ELSE b[i \div 2] % 16]

\* hex::decode on a string of hex digits.
hex_decode(s) ==
    IF Len(s) % 2 # 0 THEN RsErr("OddLength")
    ELSE RsOk([i \in 1..(Len(s) \div 2) |-> s[2 * i - 1] * 16 + s[2 * i]])

\* A u64 is kept as four 16-bit limbs, least significant first.
\* idx as u64, for an idx below 2^31.
as_u64(idx) == <<idx % 65536, idx \div 65536, 0, 0>>

\* u64::to_le_bytes: the eight bytes of v, least significant first.
to_le_bytes(v) ==
    [j \in 1..8 |->
        LET limb == v[((j - 1) \div 2) + 1]
        IN  IF j % 2 = 1 THEN limb % 256 ELSE limb \div 256]

\* Mutant of derive_nonce_from_base: only the lowest counter byte is mixed in.
derive_nonce_from_base_LowByte(base, idx) ==
    [i \in 1..Len(base) |->
        IF i = 17 THEN Xor8(base[i], to_le_bytes(idx)[1]) ELSE base[i]]

\* derive_nonce_from_base(base, idx) for a u64 idx.
derive_nonce_from_base(base, idx) ==
    LET ctr == to_le_bytes(idx)
    IN  [i \in 1..Len(base) |->
            IF i > 16 /\ i <= 24 THEN Xor8(base[i], ctr[i - 16]) ELSE base[i]]

\* The chunk buffer after reading chunk idx: file bytes, then zero padding.
ReadChunk(input, idx, chunk_size) ==
    [b \in 1..chunk_size |->
        IF idx * chunk_size + b <= Len(input) THEN input[idx * chunk_size + b]
        ELSE 0]

RECURSIVE PackLoop(_, _, _, _, _, _, _, _, _)
\* for idx in 0..chunks: seal the chunk, encode it, append stripe i to file i.
PackLoop(input, ks, aad, nonce_base, chunk_size, k, m, idx, files) ==
    IF idx >= CeilDiv(Len(input), chunk_size) THEN files
    ELSE LET nonce  == derive_nonce_from_base(nonce_base, as_u64(idx))
             ct     == seal_with_nonce(ks, aad, nonce,
                                       ReadChunk(input, idx, chunk_size))
             shards == rs_encode(ct, k, m).val
         IN  PackLoop(input, ks, aad, nonce_base, chunk_size, k, m, idx + 1,
                      [i \in 1..(k + m) |-> files[i] \o shards[i]])

\* pack_stream_cmd: the shard files and the stream manifest it writes.  The
\* series commit and its identifier, which unpack-stream does not read, are
\* left out of the manifest.
pack_stream_cmd(input, k, m, ikm, salt, chunk_size, aad, nonce_base) ==
    LET ks == KeySchedule_derive(ikm, salt)
    IN  [files |-> [i \in 1..(k + m) |->
                      Some(PackLoop(input, ks, aad, nonce_base, chunk_size,
                                    k, m, 0, [j \in 1..(k + m) |-> <<>>])[i])],
         manifest |-> [aad |-> aad,
                       size_bytes |-> Len(input),
                       data_shards |-> k,
                       parity_shards |-> m,
                       chunk_size |-> chunk_size,
                       ct_len_per_chunk |-> chunk_size + TagLen,
                       chunks |-> CeilDiv(Len(input), chunk_size),
                       nonce_base_hex |-> hex_encode(nonce_base)]]

\* One pass of the read loop of a shard reader at position pos: the bytes
\* read (at most shard_size) and the slot pushed to the stripe.
ReadStripe(file, pos, shard_size) ==
    IF file = None THEN [pos |-> pos, slot |-> None]
    ELSE LET read_total == Min2(shard_size, Len(file.val) - pos)
         IN  [pos  |-> pos + read_total,
              slot |-> IF read_total = shard_size
                       THEN Some(SubSeq(file.val, pos + 1, pos + shard_size))
                       ELSE None]

\* out.set_len(n) left out: the file keeps what was written.
set_len_Skipped(bytes, n) == bytes

\* out.set_len(n): cut, or extend with zeros, to n bytes.
set_len(bytes, n) ==
    IF Len(bytes) >= n THEN SubSeq(bytes, 1, n)
    ELSE bytes \o Zeros(n - Len(bytes))

ProcOk(output) == [kind |-> "Ok", err |-> "", output |-> output]

ProcFail(err, output) == [kind |-> "Fail", err |-> err, output |-> output]

RECURSIVE UnpackLoop(_, _, _, _, _, _)
\* for idx in 0..sm.chunks: read a stripe, reconstruct, open, write.
UnpackLoop(files, sm, ks, idx, pos, out) ==
    IF idx >= sm.chunks THEN ProcOk(set_len(out, sm.size_bytes))
    ELSE LET shard_size == CeilDiv(sm.ct_len_per_chunk, sm.data_shards)
             reads  == [i \in 1..Len(files) |->
                          ReadStripe(files[i], pos[i], shard_size)]
             stripe == [i \in 1..Len(files) |-> reads[i].slot]
             joined == rs_reconstruct(stripe, sm.data_shards, sm.parity_shards)
             base   == hex_decode(sm.nonce_base_hex)
             nonce  == derive_nonce_from_base(base.val, as_u64(idx))
             pt     == open(ks, sm.aad, nonce,
                            SubSeq(joined.val, 1, sm.ct_len_per_chunk))
         IN  IF joined.kind = "Err" THEN ProcFail("rs_reconstruct", out)
             ELSE IF base.kind = "Err" \/ Len(base.val) # NonceLen
                  THEN ProcFail("nonce-base", out)
             ELSE IF pt.kind = "Err" THEN ProcFail("open", out)
             ELSE UnpackLoop(files, sm, ks, idx + 1,
                             [i \in 1..Len(files) |-> reads[i].pos],
                             out \o pt.val)

\* unpack_stream_cmd: how the process ends and the bytes of the output file.
unpack_stream_cmd(files, sm, ikm, salt) ==
    UnpackLoop([i \in 1..(sm.data_shards + sm.parity_shards) |->
                   IF i <= Len(files) THEN files[i] ELSE None],
               sm, KeySchedule_derive(ikm, salt), 0,
               [i \in 1..(sm.data_shards + sm.parity_shards) |-> 0], <<>>)

Salts == {3}

\* Associated data strings, named by small numbers.
Aads == {7}

NoManifest == [chunks |-> 0]

StreamInit ==
    /\ FountainIdle
    /\ rs = RsIdle
    /\ cm = CmIdle
    /\ \E input \in SeqsUpTo(ByteVals, MaxFile), chunk_size \in 1..MaxChunk,
          k \in 1..MaxStreamK, m \in 1..MaxStreamM, base \in NonceBases,
          salt \in Salts, aad \in Aads :
          st = [phase |-> "input", input |-> input, chunk_size |-> chunk_size,
                k |-> k, m |-> m, ikm |-> 1, salt |-> salt, aad |-> aad,
                nonce_base |-> base,
                files |-> <<>>, manifest |-> NoManifest,
                deleted |-> {}, cut |-> {}, corrupt |-> {}, unpack_ikm |-> 0,
                out |-> ProcFail("", <<>>)]

\* s3p pack-stream <input> <out_dir> --data=k --parity=m --chunk=chunk_size.
PackStream ==
    /\ st.phase = "input"
    /\ LET packed == pack_stream_cmd(st.input, st.k, st.m, st.ikm, st.salt,
                                     st.chunk_size, st.aad, st.nonce_base)
       IN  st' = [st EXCEPT !.phase = "packed", !.files = packed.files,
                            !.manifest = packed.manifest]
    /\ UNCHANGED <<original, enc, emitted, dec, result, received, nrecv,
                   lastPkt, rs, cm>>

\* A shard file is removed from the directory.
DeleteShardFile ==
    /\ st.phase = "packed"
    /\ Cardinality(st.deleted \cup st.cut) < MaxDamage
    /\ \E i \in 1..Len(st.files) :
          /\ st.files[i] # None
          /\ i \notin st.cut
          /\ st' = [st EXCEPT !.files[i] = None, !.deleted = @ \cup {i}]
    /\ UNCHANGED <<original, enc, emitted, dec, result, received, nrecv,
                   lastPkt, rs, cm>>

\* A shard file loses its tail: it keeps c whole stripes and r further bytes.
TruncateShardFile ==
    /\ st.phase = "packed"
    /\ Cardinality(st.deleted \cup st.cut) < MaxDamage
    /\ \E i \in 1..Len(st.files), c \in 0..(st.manifest.chunks - 1), r \in {0, 1} :
          LET shard_size == CeilDiv(st.manifest.ct_len_per_chunk, st.k)
              keep       == c * shard_size + r
          IN  /\ st.files[i] # None
              /\ i \notin st.cut
              /\ keep < Len(st.files[i].val)
              /\ st' = [st EXCEPT !.files[i] = Some(SubSeq(st.files[i].val, 1, keep)),
                                  !.cut = @ \cup {i}]
    /\ UNCHANGED <<original, enc, emitted, dec, result, received, nrecv,
                   lastPkt, rs, cm>>

\* s3p unpack-stream <in_dir> <output> --ikm-hex=.. --salt-hex=..
UnpackStream ==
    /\ st.phase = "packed"
    /\ \E ikm \in Ikms :
          st' = [st EXCEPT !.phase = "unpacked", !.unpack_ikm = ikm,
                           !.out = unpack_stream_cmd(st.files, st.manifest,
                                                     ikm, st.salt)]
    /\ UNCHANGED <<original, enc, emitted, dec, result, received, nrecv,
                   lastPkt, rs, cm>>

StreamNext == PackStream \/ DeleteShardFile \/ TruncateShardFile \/ UnpackStream

StreamSpec == StreamInit /\ [][StreamNext]_vars

\* Whole stripes of chunk idx that the shard files still hold.
AvailableStripes(idx) ==
    LET shard_size == CeilDiv(st.manifest.ct_len_per_chunk, st.k)
    IN  {i \in 1..Len(st.files) :
            /\ st.files[i] # None
            /\ Len(st.files[i].val) >= (idx + 1) * shard_size}

-----------------------------------------------------------------------------
(* Nonce derivation of the stream profile on its own (NonceSpec): chunks of *)
(* one artifact are sealed at arbitrary u64 indices, in any order.          *)

\* Chunk indices across the whole u64 range: around every byte boundary of
\* the counter, and the largest value.
IndexSamples ==
    {<<0, 0, 0, 0>>, <<1, 0, 0, 0>>, <<255, 0, 0, 0>>, <<256, 0, 0, 0>>,
     <<65535, 0, 0, 0>>, <<0, 1, 0, 0>>, <<0, 256, 0, 0>>, <<0, 0, 1, 0>>,
     <<0, 0, 256, 0>>, <<0, 0, 0, 1>>, <<0, 0, 0, 256>>,
     <<65535, 65535, 65535, 65535>>}

NonceBaseSamples == {Zeros(NonceLen), [i \in 1..NonceLen |-> 255 - i]}

NonceInit ==
    /\ FountainIdle
    /\ rs = RsIdle
    /\ cm = CmIdle
    /\ \E base \in NonceBaseSamples :
          st = [phase |-> "nonces", nonce_base |-> base, sealed |-> {}]

\* let nonce = derive_nonce_from_base(&nonce_base, idx as u64), then seal.
SealChunk ==
    /\ st.phase = "nonces"
    /\ \E idx \in IndexSamples :
          /\ \A e \in st.sealed : e.idx # idx
          /\ st' = [st EXCEPT !.sealed = @ \cup
                       {[idx |-> idx,
                         nonce |-> derive_nonce_from_base(st.nonce_base, idx)]}]
    /\ UNCHANGED <<original, enc, emitted, dec, result, received, nrecv,
                   lastPkt, rs, cm>>

NonceNext == SealChunk

NonceSpec == NonceInit /\ [][NonceNext]_vars

\* C13: for a fixed 24-byte base, distinct chunk indices below 2^64 derive
\* distinct nonces; a derived nonce equals base in bytes [0..16) and base
\* XOR little-endian(idx) in bytes [16..24), so no two chunks of an artifact
\* are sealed under one nonce.
NonceUniqueness ==
    st.phase = "nonces" =>
        /\ \A e, f \in st.sealed : e.idx # f.idx => e.nonce # f.nonce
        /\ \A e \in st.sealed :
              /\ Len(e.nonce) = NonceLen
              /\ \A i \in 1..16 : e.nonce[i] = st.nonce_base[i]
              /\ \A i \in 17..24 :
                    e.nonce[i] =
                        Xor8(st.nonce_base[i],
                             (e.idx[((i - 17) \div 2) + 1]
                                 \div (IF i % 2 = 1 THEN 1 ELSE 256)) % 256)

\* Chunks 0, 256 and 2^64 - 1 of one artifact have been sealed.
NonceUniquenessWitness ==
    /\ st.phase = "nonces"
    /\ \E e, f, g \in st.sealed :
          /\ e.idx = <<0, 0, 0, 0>>
          /\ f.idx = <<256, 0, 0, 0>>
          /\ g.idx = <<65535, 65535, 65535, 65535>>
          /\ e.nonce # f.nonce

-----------------------------------------------------------------------------
(* unpack-stream over a pack directory whose shard files were altered in    *)
(* place (TamperSpec).                                                      *)

\* One byte of a shard file is changed on disk; the file keeps its length.
CorruptShardFile ==
    /\ st.phase = "packed"
    /\ Cardinality(st.corrupt) < MaxCorrupt
    /\ \E i \in 1..Len(st.files) :
          /\ st.files[i] # None
          /\ \E pos \in 1..Len(st.files[i].val) :
                /\ <<i, pos>> \notin st.corrupt
                /\ st' = [st EXCEPT
                            !.files[i] = Some([st.files[i].val EXCEPT
                                                 ![pos] = Xor8(@, 1)]),
                            !.corrupt = @ \cup {<<i, pos>>}]
    /\ UNCHANGED <<original, enc, emitted, dec, result, received, nrecv,
                   lastPkt, rs, cm>>

TamperNext == PackStream \/ CorruptShardFile \/ UnpackStream

TamperSpec == StreamInit /\ [][TamperNext]_vars

\* C14: when AEAD open fails for a chunk at any index, the unpack-stream run
\* has written no plaintext bytes to the output file.
NoPartialPlaintext ==
    (st.phase = "unpacked" /\ st.out.kind = "Fail" /\ st.out.err = "open")
        => st.out.output = <<>>

-----------------------------------------------------------------------------
(* A pack directory and the commands that read and write it (DirSpec):      *)
(* pack, pack-stream, verify-pack, verify-pack-stream, pod-sign, pod-verify *)
(* and pod-aggregate, with files removed or altered on disk in between.     *)

MaxPodK == 2
MaxPodM == 1
MaxOps == 4
MaxAlter == 1
MaxRemove == 1

\* Most shard files a directory holds.
MaxTotal == MaxPodK + MaxPodM

PodInputs == {<<0>>, <<165, 0>>}

\* Secret keys given as --sk-hex.
SigningKeys == {1, 2}

\* Merkle leaf of a shard: H(shard_bytes).
leaf_hash(bytes) == <<"leaf", bytes>>

\* One level up: H("node" || L || R), an odd right node duplicated from left.
MerklePairs(level) ==
    [i \in 1..CeilDiv(Len(level), 2) |->
        <<"node", level[2 * i - 1],
          IF 2 * i <= Len(level) THEN level[2 * i] ELSE level[2 * i - 1]>>]

RECURSIVE merkle_root(_)
merkle_root(leaves) ==
    IF Len(leaves) = 0 THEN <<"empty">>
    ELSE IF Len(leaves) = 1 THEN leaves[1]
    ELSE merkle_root(MerklePairs(leaves))

SeriesCommit(size_bytes, chunk_size, k, m, root) ==
    [version |-> 1, size_bytes |-> size_bytes, chunk_size |-> chunk_size,
     erasure_data |-> k, erasure_parity |-> m,
     aead_alg |-> "XChaCha20-Poly1305", merkle_root |-> root]

\* SCID = H(canonical_encoding(SeriesCommit)).
scid(commit) == <<"scid", commit>>

VerifyingKey(sk) == <<"pk", sk>>

\* The fields a PoD signature binds.
PodMessage(pod) ==
    <<pod.scid, pod.shard_index, pod.ts_unix_ms, pod.signer_pubkey,
      pod.leaf_hash>>

ProofOfDelivery_sign(sk, id, shard_index, leaf, ts) ==
    LET body == [scid |-> id, shard_index |-> shard_index, ts_unix_ms |-> ts,
                 signer_pubkey |-> VerifyingKey(sk), leaf_hash |-> leaf]
    IN  [scid |-> id, shard_index |-> shard_index, ts_unix_ms |-> ts,
         signer_pubkey |-> VerifyingKey(sk), leaf_hash |-> leaf,
         signature |-> <<"sig", sk, PodMessage(body)>>]

ProofOfDelivery_verify(pod) ==
    \E sk \in SigningKeys :
        /\ pod.signer_pubkey = VerifyingKey(sk)
        /\ pod.signature = <<"sig", sk, PodMessage(pod)>>

\* pack_cmd: the shards and manifest.json it writes.
pack_cmd(input, k, m, ikm, salt, aad, nonce) ==
    LET ks         == KeySchedule_derive(ikm, salt)
        ciphertext == seal_with_nonce(ks, aad, nonce, input)
        shards     == rs_encode(ciphertext, k, m).val
        root       == merkle_root([i \in 1..(k + m) |-> leaf_hash(shards[i])])
        commit     == SeriesCommit(Len(input), Len(ciphertext), k, m, root)
    IN  [shards   |-> shards,
         manifest |-> [version |-> 1, scid |-> scid(commit), commit |-> commit,
                       aad |-> aad, nonce_hex |-> hex_encode(nonce),
                       ct_len |-> Len(ciphertext),
                       data_shards |-> k, parity_shards |-> m]]

\* The series commit and identifier pack_stream_cmd puts in its manifest.
StreamCommit(files, sm) ==
    LET total  == sm.data_shards + sm.parity_shards
        root   == merkle_root([i \in 1..total |-> leaf_hash(files[i].val)])
        commit == SeriesCommit(sm.size_bytes, sm.chunk_size, sm.data_shards,
                               sm.parity_shards, root)
    IN  [scid |-> scid(commit), commit |-> commit,
         data_shards |-> sm.data_shards, parity_shards |-> sm.parity_shards]

\* How a command ends and what it reports.
Report(cmd, exit, msg) ==
    [cmd |-> cmd, exit |-> exit, msg |-> msg, ok |-> 0, bad |-> 0,
     missing |-> 0, included |-> <<>>, wrote |-> FALSE]

NoReport == Report("", 0, "")

\* Mutant of verify_pack: the Merkle root is not compared.
verify_pack_NoRoot(cmd, shards, mf) ==
    LET total == mf.data_shards + mf.parity_shards
    IN  IF \E i \in 1..total : shards[i] = None
        THEN Report(cmd, 2, "missing shard")
        ELSE IF scid(mf.commit) # mf.scid
        THEN Report(cmd, 2, "scid mismatch")
        ELSE Report(cmd, 0, "OK")

\* verify_pack_cmd and verify_pack_stream_cmd, over their manifest.
verify_pack(cmd, shards, mf) ==
    LET total  == mf.data_shards + mf.parity_shards
        leaves == [i \in 1..total |-> leaf_hash(shards[i].val)]
    IN  IF \E i \in 1..total : shards[i] = None
        THEN Report(cmd, 2, "missing shard")
        ELSE IF merkle_root(leaves) # mf.commit.merkle_root
        THEN Report(cmd, 2, "merkle_root mismatch")
        ELSE IF scid(mf.commit) # mf.scid
        THEN Report(cmd, 2, "scid mismatch")
        ELSE Report(cmd, 0, "OK")

\* pod_sign_cmd: the PoD files in the directory after the run.
pod_sign_cmd(shards, pods, mf, sk, ts) ==
    LET total == mf.data_shards + mf.parity_shards
    IN  [i \in 1..MaxTotal |->
            IF i <= total /\ shards[i] # None
            THEN Some(ProofOfDelivery_sign(sk, mf.scid, i - 1,
                                           Sha256(shards[i].val), ts))
            ELSE pods[i]]

RECURSIVE PodVerifyLoop(_, _, _, _, _)
\* Mutant of PodVerifyLoop: the shard file and its hash are not looked at.
PodVerifyLoop_NoShardCheck(shards, pods, mf, i, acc) ==
    IF i > mf.data_shards + mf.parity_shards THEN acc
    ELSE IF pods[i] = None
    THEN PodVerifyLoop(shards, pods, mf, i + 1, [acc EXCEPT !.missing = @ + 1])
    ELSE IF pods[i].val.scid # mf.scid
    THEN PodVerifyLoop(shards, pods, mf, i + 1, [acc EXCEPT !.bad = @ + 1])
    ELSE IF ProofOfDelivery_verify(pods[i].val)
    THEN PodVerifyLoop(shards, pods, mf, i + 1, [acc EXCEPT !.ok = @ + 1])
    ELSE PodVerifyLoop(shards, pods, mf, i + 1, [acc EXCEPT !.bad = @ + 1])

\* pod_verify_cmd: for i in 0..total (i here is one more than the index).
PodVerifyLoop(shards, pods, mf, i, acc) ==
    IF i > mf.data_shards + mf.parity_shards THEN acc
    ELSE IF pods[i] = None
    THEN PodVerifyLoop(shards, pods, mf, i + 1, [acc EXCEPT !.missing = @ + 1])
    ELSE IF pods[i].val.scid # mf.scid
    THEN PodVerifyLoop(shards, pods, mf, i + 1, [acc EXCEPT !.bad = @ + 1])
    ELSE IF shards[i] = None
    THEN PodVerifyLoop(shards, pods, mf, i + 1, [acc EXCEPT !.bad = @ + 1])
    ELSE IF Sha256(shards[i].val) # pods[i].val.leaf_hash
    THEN PodVerifyLoop(shards, pods, mf, i + 1, [acc EXCEPT !.bad = @ + 1])
    ELSE IF ProofOfDelivery_verify(pods[i].val)
    THEN PodVerifyLoop(shards, pods, mf, i + 1, [acc EXCEPT !.ok = @ + 1])
    ELSE PodVerifyLoop(shards, pods, mf, i + 1, [acc EXCEPT !.bad = @ + 1])

pod_verify_cmd(shards, pods, mf) ==
    LET acc == PodVerifyLoop(shards, pods, mf, 1, Report("pod-verify", 0, ""))
    IN  [acc EXCEPT !.exit = IF acc.bad = 0 THEN 0 ELSE 2]

pod_leaf_hash(pod) ==
    Sha256(<<"s3p-pod-leaf-v1", pod.scid, pod.shard_index, pod.ts_unix_ms,
             pod.signer_pubkey, pod.leaf_hash>>)

RECURSIVE PodAggregateLoop(_, _, _, _)
\* pod_aggregate_cmd: for i in 0..total; acc.leaves collects the PoD leaves.
PodAggregateLoop(pods, mf, i, acc) ==
    IF i > mf.data_shards + mf.parity_shards THEN acc
    ELSE IF pods[i] = None
    THEN PodAggregateLoop(pods, mf, i + 1, [acc EXCEPT !.missing = @ + 1])
    ELSE IF pods[i].val.scid # mf.scid
    THEN PodAggregateLoop(pods, mf, i + 1,
                          [acc EXCEPT !.bad = @ + 1, !.present = @ + 1])
    ELSE IF ~ProofOfDelivery_verify(pods[i].val)
    THEN PodAggregateLoop(pods, mf, i + 1,
                          [acc EXCEPT !.bad = @ + 1, !.present = @ + 1])
    ELSE PodAggregateLoop(pods, mf, i + 1,
                          [acc EXCEPT !.ok = @ + 1, !.present = @ + 1,
                                      !.included = Append(@, i - 1),
                                      !.leaves = Append(@, pod_leaf_hash(pods[i].val))])

\* pod_aggregate_cmd: the report and the aggregate file it writes, None when
\* it writes none; report.wrote tells whether the run wrote the file.
pod_aggregate_cmd(pods, mf) ==
    LET acc == PodAggregateLoop(pods, mf, 1,
                   [ok |-> 0, bad |-> 0, missing |-> 0, present |-> 0,
                    included |-> <<>>, leaves |-> <<>>])
        rep == [Report("pod-aggregate", 0, "") EXCEPT
                   !.ok = acc.ok, !.bad = acc.bad, !.missing = acc.missing,
                   !.included = acc.included]
    IN  IF acc.leaves = <<>>
        THEN [report |-> [rep EXCEPT !.exit = 2, !.msg = "no valid PoD to aggregate"],
              agg    |-> None]
        ELSE [report |-> [rep EXCEPT !.wrote = TRUE],
              agg    |-> Some([version |-> 1, scid |-> mf.scid,
                               total_shards |-> mf.data_shards + mf.parity_shards,
                               present_pods |-> acc.present,
                               ok |-> acc.ok, bad |-> acc.bad,
                               missing |-> acc.missing,
                               pod_root |-> merkle_root(acc.leaves),
                               included_indexes |-> acc.included])]

\* Every pack run of the model, by input, k and m; salt, aad and the random
\* nonce are the same in all of them.
PackRuns ==
    [input \in PodInputs |-> [k \in 1..MaxPodK |-> [m \in 1..MaxPodM |->
        pack_cmd(input, k, m, 1, 3, 7, [i \in 1..NonceLen |-> 255 - i])]]]

\* Every pack-stream run of the model, with --chunk=1.
PackStreamRuns ==
    [input \in PodInputs |-> [k \in 1..MaxPodK |-> [m \in 1..MaxPodM |->
        pack_stream_cmd(input, k, m, 1, 3, 1, 7,
                        [i \in 1..NonceLen |-> 255 - i])]]]

\* An empty output directory.
DirInit ==
    /\ FountainIdle
    /\ rs = RsIdle
    /\ cm = CmIdle
    /\ st = [phase |-> "dir",
             shards |-> [i \in 1..MaxTotal |-> None],
             pods |-> [i \in 1..MaxTotal |-> None],
             mf |-> None, sm |-> None,
             history |-> <<>>, report |-> NoReport]

\* Number of files altered on disk so far.
Altered ==
    Cardinality({n \in 1..Len(st.history) :
                    st.history[n][1] \in {"alter-shard", "alter-pod",
                                          "alter-manifest"}})

\* Number of shard files removed so far.
Removed ==
    Cardinality({n \in 1..Len(st.history) : st.history[n][1] = "remove-shard"})

CanChange == st.phase = "dir" /\ Len(st.history) < MaxOps

\* s3p pack <input> <out_dir> --data=k --parity=m.
Pack ==
    /\ CanChange
    /\ \E input \in PodInputs, k \in 1..MaxPodK, m \in 1..MaxPodM :
          LET packed == PackRuns[input][k][m]
          IN  st' = [st EXCEPT
                       !.shards = [i \in 1..MaxTotal |->
                                     IF i <= k + m THEN Some(packed.shards[i])
                                     ELSE st.shards[i]],
                       !.mf = Some(packed.manifest),
                       !.history = Append(@, <<"pack", k + m>>),
                       !.report = NoReport]
    /\ UNCHANGED <<original, enc, emitted, dec, result, received, nrecv,
                   lastPkt, rs, cm>>

\* s3p pack-stream <input> <out_dir> --data=k --parity=m --chunk=1.
PackStreamDir ==
    /\ CanChange
    /\ \E input \in PodInputs, k \in 1..MaxPodK, m \in 1..MaxPodM :
          LET packed == PackStreamRuns[input][k][m]
          IN  st' = [st EXCEPT
                       !.shards = [i \in 1..MaxTotal |->
                                     IF i <= k + m THEN packed.files[i]
                                     ELSE st.shards[i]],
                       !.sm = Some(StreamCommit(packed.files, packed.manifest)),
                       !.history = Append(@, <<"pack-stream", k + m>>),
                       !.report = NoReport]
    /\ UNCHANGED <<original, enc, emitted, dec, result, received, nrecv,
                   lastPkt, rs, cm>>

\* shard_00i.bin is removed from the directory.
RemoveShard ==
    /\ CanChange
    /\ Removed < MaxRemove
    /\ \E i \in 1..MaxTotal :
          /\ st.shards[i] # None
          /\ st' = [st EXCEPT !.shards[i] = None,
                              !.history = Append(@, <<"remove-shard", i>>),
                              !.report = NoReport]
    /\ UNCHANGED <<original, enc, emitted, dec, result, received, nrecv,
                   lastPkt, rs, cm>>

\* One byte of shard_00i.bin is changed on disk.
AlterShard ==
    /\ CanChange
    /\ Altered < MaxAlter
    /\ \E i \in 1..MaxTotal :
          /\ st.shards[i] # None
          /\ \E pos \in {1, Len(st.shards[i].val)} :
                st' = [st EXCEPT
                         !.shards[i] = Some([st.shards[i].val EXCEPT
                                               ![pos] = Xor8(@, 1)]),
                         !.history = Append(@, <<"alter-shard", i>>),
                         !.report = NoReport]
    /\ UNCHANGED <<original, enc, emitted, dec, result, received, nrecv,
                   lastPkt, rs, cm>>

\* A field of pod_00i.json is changed on disk.
AlterPod ==
    /\ CanChange
    /\ Altered < MaxAlter
    /\ \E i \in 1..MaxTotal :
          /\ st.pods[i] # None
          /\ \/ st' = [st EXCEPT !.pods[i].val.signature = <<"sig", 0, <<>>>>,
                                 !.history = Append(@, <<"alter-pod", i>>),
                                 !.report = NoReport]
             \/ st' = [st EXCEPT !.pods[i].val.scid = <<"scid", [@[2] EXCEPT !.version = 0]>>,
                                 !.history = Append(@, <<"alter-pod", i>>),
                                 !.report = NoReport]
             \/ st' = [st EXCEPT !.pods[i].val.leaf_hash = Sha256(<<>>),
                                 !.history = Append(@, <<"alter-pod", i>>),
                                 !.report = NoReport]
    /\ UNCHANGED <<original, enc, emitted, dec, result, received, nrecv,
                   lastPkt, rs, cm>>

\* A field of manifest.json or manifest_stream.json is changed on disk.
AlterManifest ==
    /\ CanChange
    /\ Altered < MaxAlter
    /\ \/ /\ st.mf # None
          /\ \/ st' = [st EXCEPT !.mf.val.scid = <<"scid", [@[2] EXCEPT !.version = 0]>>,
                                 !.history = Append(@, <<"alter-manifest", 0>>),
                                 !.report = NoReport]
             \/ st' = [st EXCEPT !.mf.val.commit.size_bytes = @ + 1,
                                 !.history = Append(@, <<"alter-manifest", 0>>),
                                 !.report = NoReport]
       \/ /\ st.sm # None
          /\ st' = [st EXCEPT !.sm.val.commit.merkle_root = <<"leaf", <<>>>>,
                              !.history = Append(@, <<"alter-manifest", 1>>),
                              !.report = NoReport]
    /\ UNCHANGED <<original, enc, emitted, dec, result, received, nrecv,
                   lastPkt, rs, cm>>

\* Number of pod-sign runs so far, the clock of ts_unix_ms.
SignRuns ==
    Cardinality({n \in 1..Len(st.history) : st.history[n][1] = "pod-sign"})

\* s3p pod-sign <in_dir> --sk-hex=..
PodSign ==
    /\ CanChange
    /\ st.mf # None
    /\ \E sk \in SigningKeys :
          st' = [st EXCEPT
                   !.pods = pod_sign_cmd(st.shards, st.pods, st.mf.val, sk,
                                         SignRuns),
                   !.history = Append(@, <<"pod-sign", sk>>),
                   !.report = NoReport]
    /\ UNCHANGED <<original, enc, emitted, dec, result, received, nrecv,
                   lastPkt, rs, cm>>

\* s3p verify-pack <in_dir>
VerifyPack ==
    /\ st.phase = "dir"
    /\ st.mf # None
    /\ st' = [st EXCEPT !.report = verify_pack("verify-pack", st.shards,
                                               st.mf.val)]
    /\ UNCHANGED <<original, enc, emitted, dec, result, received, nrecv,
                   lastPkt, rs, cm>>

\* s3p verify-pack-stream <in_dir>
VerifyPackStream ==
    /\ st.phase = "dir"
    /\ st.sm # None
    /\ st' = [st EXCEPT !.report = verify_pack("verify-pack-stream", st.shards,
                                               st.sm.val)]
    /\ UNCHANGED <<original, enc, emitted, dec, result, received, nrecv,
                   lastPkt, rs, cm>>

\* s3p pod-verify <in_dir>
PodVerify ==
    /\ st.phase = "dir"
    /\ st.mf # None
    /\ st' = [st EXCEPT !.report = pod_verify_cmd(st.shards, st.pods, st.mf.val)]
    /\ UNCHANGED <<original, enc, emitted, dec, result, received, nrecv,
                   lastPkt, rs, cm>>

\* s3p pod-aggregate <in_dir>
PodAggregate ==
    /\ st.phase = "dir"
    /\ st.mf # None
    /\ st' = [st EXCEPT !.report = pod_aggregate_cmd(st.pods, st.mf.val).report]
    /\ UNCHANGED <<original, enc, emitted, dec, result, received, nrecv,
                   lastPkt, rs, cm>>

DirNext ==
    \/ Pack
    \/ PackStreamDir
    \/ RemoveShard
    \/ AlterShard
    \/ AlterPod
    \/ AlterManifest
    \/ PodSign
    \/ VerifyPack
    \/ VerifyPackStream
    \/ PodVerify
    \/ PodAggregate

DirSpec == DirInit /\ [][DirNext]_vars

\* The manifest read by the verify command that ran last.
VerifiedManifest ==
    IF st.report.cmd = "verify-pack" THEN st.mf.val ELSE st.sm.val

\* Position in the history of the last pack or pack-stream run, 0 if none.
LastPackAt ==
    Max2(0, CHOOSE n \in 0..Len(st.history) :
                /\ n > 0 => st.history[n][1] \in {"pack", "pack-stream"}
                /\ \A j \in (n + 1)..Len(st.history) :
                      st.history[j][1] \notin {"pack", "pack-stream"})

\* The directory was packed by the profile of the last verify command, and
\* since then one byte of one of its k+m shard files was changed and nothing
\* else but PoD files.
FreshPackAltered ==
    /\ LastPackAt > 0
    /\ st.history[LastPackAt][1] =
           (IF st.report.cmd = "verify-pack" THEN "pack" ELSE "pack-stream")
    /\ \E n \in (LastPackAt + 1)..Len(st.history) :
          /\ st.history[n][1] = "alter-shard"
          /\ st.history[n][2] <= st.history[LastPackAt][2]
          /\ \A j \in ((LastPackAt + 1)..Len(st.history)) \ {n} :
                st.history[j][1] = "pod-sign"

\* C15: verify-pack and verify-pack-stream report OK exactly when all k+m
\* shard files exist, the Merkle root over them equals commit.merkle_root and
\* the SCID of the commit equals the manifest scid, and exit with status 2
\* otherwise; one changed byte in a shard file of a freshly packed directory
\* gives a Merkle root mismatch.
VerifyPackExact ==
    st.report.cmd \in {"verify-pack", "verify-pack-stream"} =>
        LET mf    == VerifiedManifest
            total == mf.data_shards + mf.parity_shards
            good  == /\ \A i \in 1..total : st.shards[i] # None
                     /\ merkle_root([i \in 1..total |->
                                        leaf_hash(st.shards[i].val)])
                            = mf.commit.merkle_root
                     /\ scid(mf.commit) = mf.scid
        IN  /\ (st.report.exit = 0 /\ st.report.msg = "OK") <=> good
            /\ ~good => st.report.exit = 2
            /\ FreshPackAltered =>
                  (st.report.exit = 2 /\ st.report.msg = "merkle_root mismatch")

\* verify-pack-stream has run on a freshly stream-packed directory of three
\* shard files, one of which had a byte changed.
VerifyPackExactWitness ==
    /\ st.phase = "dir"
    /\ st.report.cmd = "verify-pack-stream"
    /\ FreshPackAltered
    /\ st.sm.val.data_shards + st.sm.val.parity_shards = 3
    /\ st.report.exit = 2

\* What the four checks say about index i - 1 of the directory.
PodClass(i) ==
    IF st.pods[i] = None THEN "missing"
    ELSE IF \/ st.pods[i].val.scid # st.mf.val.scid
            \/ st.shards[i] = None
            \/ Sha256(st.shards[i].val) # st.pods[i].val.leaf_hash
            \/ ~ProofOfDelivery_verify(st.pods[i].val)
         THEN "bad"
         ELSE "ok"

PodCount(class) ==
    Cardinality({i \in 1..(st.mf.val.data_shards + st.mf.val.parity_shards) :
                    PodClass(i) = class})

\* C16: pod-verify counts every index of [0, k+m) once, as missing when its
\* PoD file is absent, as bad when the PoD's scid differs from the manifest's,
\* the shard file is absent, the leaf hash differs or the signature is
\* invalid, and as ok otherwise; it exits with status 2 exactly when bad > 0.
PodClassification ==
    st.report.cmd = "pod-verify" =>
        /\ st.report.ok = PodCount("ok")
        /\ st.report.bad = PodCount("bad")
        /\ st.report.missing = PodCount("missing")
        /\ st.report.ok + st.report.bad + st.report.missing
              = st.mf.val.data_shards + st.mf.val.parity_shards
        /\ st.report.exit = (IF st.report.bad > 0 THEN 2 ELSE 0)

\* pod-verify has found one index of each class, the bad one for a PoD whose
\* own fields are intact.
PodClassificationWitness ==
    /\ st.phase = "dir"
    /\ st.report.cmd = "pod-verify"
    /\ st.report.ok = 1 /\ st.report.bad = 1 /\ st.report.missing = 1
    /\ \E i \in 1..3 :
          /\ PodClass(i) = "bad"
          /\ ProofOfDelivery_verify(st.pods[i].val)

\* C17: whenever pod-sign was the last operation that changed the directory,
\* pod-verify reports bad = 0, whatever was done to the directory before.
PodIdempotence ==
    (/\ st.phase = "dir"
     /\ st.report.cmd = "pod-verify"
     /\ Len(st.history) > 0
     /\ st.history[Len(st.history)][1] = "pod-sign")
        => st.report.bad = 0

\* C18: every index in included_indexes has a PoD that passes the four checks
\* of pod-verify; included_indexes ascends; ok + bad + missing = k+m; when no
\* PoD passes them, no aggregate file is written and the exit status is 2.
AggregateOnlyValid ==
    st.report.cmd = "pod-aggregate" =>
        LET inc == st.report.included
        IN  /\ \A n \in 1..Len(inc) : PodClass(inc[n] + 1) = "ok"
            /\ \A n \in 1..(Len(inc) - 1) : inc[n] < inc[n + 1]
            /\ st.report.ok + st.report.bad + st.report.missing
                  = st.mf.val.data_shards + st.mf.val.parity_shards
            /\ PodCount("ok") = 0 => (~st.report.wrote /\ st.report.exit = 2)

-----------------------------------------------------------------------------
(* Digests of two receipt cores with the same scid, merkle_root and ct_hash *)
(* (ReceiptSpec).                                                           *)

MaxNotes == 2
MaxMutations == 1

ReceiptOutcomes ==
    {Accepted(ms, ns) : ms \in SeqsUpTo(LedgerMutations, MaxMutations),
                        ns \in SeqsUpTo(NoteStrings, MaxNotes)}
        \cup {Rejected(r) : r \in NoteStrings}

ReceiptInit ==
    /\ FountainIdle
    /\ rs = RsIdle
    /\ st = StIdle
    /\ \E a \in ReceiptOutcomes, b \in ReceiptOutcomes :
          cm = [phase |-> "cores", a |-> ReceiptCore(a), b |-> ReceiptCore(b),
                digest_a |-> <<>>, digest_b |-> <<>>]

\* a.digest() and b.digest().
Digests ==
    /\ cm.phase = "cores"
    /\ cm' = [cm EXCEPT !.phase = "digests", !.digest_a = digest(cm.a),
                        !.digest_b = digest(cm.b)]
    /\ UNCHANGED <<original, enc, emitted, dec, result, received, nrecv,
                   lastPkt, rs, st>>

ReceiptNext == Digests

ReceiptSpec == ReceiptInit /\ [][ReceiptNext]_vars

\* C20: two Accepted outcomes that differ in their mutations or in their
\* notes never have the same commitment bytes, hence never the same digest
\* under equal scid, merkle_root and ct_hash; equal cores have equal digests.
CommitmentUnambiguous ==
    cm.phase = "digests" =>
        /\ (/\ cm.a.outcome.type = "accepted"
            /\ cm.b.outcome.type = "accepted"
            /\ cm.a.outcome # cm.b.outcome)
              => /\ commitment(cm.a.outcome) # commitment(cm.b.outcome)
                 /\ cm.digest_a # cm.digest_b
        /\ cm.a = cm.b => cm.digest_a = cm.digest_b

-----------------------------------------------------------------------------
(* The encoder after its systematic phase (Spec).                           *)

\* Strictly ascending: sorted and free of duplicates.
StrictlyAscending(seq) == \A i \in 1..(Len(seq) - 1) : seq[i] < seq[i + 1]

\* C25: for every block count k >= 1, every call to next_packet after the
\* first k returns without panicking, and its packet has an index list that
\* is non-empty, sorted, free of duplicates, within [0, k) and of size at
\* most k, a payload of block_len bytes that is the XOR of the blocks at
\* those indices, and the encoder's metadata.
CodedPacketsWellFormed ==
    /\ ~enc.panicked
    /\ \A n \in (enc.metadata.block_count + 1)..Len(emitted) :
          LET p == emitted[n]
              k == enc.metadata.block_count
          IN  /\ Len(p.indices) >= 1
              /\ Len(p.indices) <= k
              /\ StrictlyAscending(p.indices)
              /\ \A i \in 1..Len(p.indices) : p.indices[i] \in 0..(k - 1)
              /\ Len(p.payload) = enc.metadata.block_len
              /\ p.payload = XorBlocks(enc.blocks, p.indices,
                                       Zeros(enc.metadata.block_len))
              /\ p.metadata = enc.metadata

\* The blocks of decoder d in index order, cut to original_len.
SolvedData(d) ==
    Truncate(ConcatBlocks(d.solutions), d.metadata.original_len)

\* C26: after a receive call that returned Ok, every pending equation has an
\* index list that is sorted, free of duplicates, of length at least 2 and
\* without an index whose block is solved; a solved block keeps its value;
\* and the call returned Some, with the blocks in index order cut to
\* original_len, exactly when all k blocks are solved, None otherwise.
DecoderStateInvariant ==
    [][(nrecv' = nrecv + 1 /\ result'.kind # "Err")
         => /\ \A e \in 1..Len(dec'.equations) :
                  LET idx == dec'.equations[e].indices
                  IN  /\ Len(idx) >= 2
                      /\ StrictlyAscending(idx)
                      /\ \A i \in 1..Len(idx) : ~dec'.solutions[idx[i] + 1].some
            /\ \A b \in 1..Len(dec.solutions) :
                  dec.solutions[b].some
                     => /\ dec'.solutions[b].some
                        /\ dec'.solutions[b].val = dec.solutions[b].val
            /\ IF \A b \in 1..Len(dec'.solutions) : dec'.solutions[b].some
               THEN result'.kind = "Some" /\ result'.out = SolvedData(dec')
               ELSE result'.kind = "None"]_vars

\* A packet over three blocks was received, one of its blocks is solved and
\* the other two are held in a pending equation.
DecoderStateInvariantWitness ==
    /\ result.kind = "None"
    /\ \E p \in received : Len(p.indices) = 3
    /\ \E b \in 1..Len(dec.solutions) : dec.solutions[b].some
    /\ \E e \in 1..Len(dec.equations) : Len(dec.equations[e].indices) = 2

-----------------------------------------------------------------------------
(* The fountain fetch receiver, s3p-fountain-fetch (FetchSpec): a loop over *)
(* the datagrams that arrive on its socket.  st.log is the list of the      *)
(* datagrams received so far.                                               *)

MaxDatagrams == 4

\* 'M' datagrams.  json tells whether the bytes after "M\n" parse as JSON;
\* pad tells apart byte strings that parse to the same values; a field that
\* is absent from the JSON reads as 0.
MetaFrames ==
    {[tag |-> "M", json |-> TRUE, k |-> 2, block_len |-> 1, ct_len |-> 2, pad |-> 0],
     [tag |-> "M", json |-> TRUE, k |-> 2, block_len |-> 1, ct_len |-> 2, pad |-> 1],
     [tag |-> "M", json |-> TRUE, k |-> 1, block_len |-> 1, ct_len |-> 1, pad |-> 0],
     [tag |-> "M", json |-> TRUE, k |-> 0, block_len |-> 1, ct_len |-> 2, pad |-> 0],
     [tag |-> "M", json |-> FALSE, k |-> 0, block_len |-> 0, ct_len |-> 0, pad |-> 0]}

\* 'P' datagrams.  packet tells whether parse_packet_json returns Some.
PacketFrames ==
    {[tag |-> "P", json |-> TRUE, packet |-> TRUE, ids |-> ids, body |-> body] :
        ids \in {<<0>>, <<1>>, <<0, 1>>}, body \in {<<0>>, <<165>>}}
    \cup {[tag |-> "P", json |-> TRUE, packet |-> FALSE, ids |-> <<>>, body |-> <<>>],
          [tag |-> "P", json |-> FALSE, packet |-> FALSE, ids |-> <<>>, body |-> <<>>]}

\* A datagram that starts with neither "M\n" nor "P\n".
OtherFrames == {[tag |-> "X"]}

RECURSIVE PeelLoop(_, _, _)
\* The peeling solver fed with the packets in order.
PeelLoop(d, packets, i) ==
    IF i > Len(packets) THEN d
    ELSE PeelLoop(receive(d, [seed |-> 0, indices |-> packets[i].ids,
                              payload |-> packets[i].body,
                              metadata |-> d.metadata]).dec,
                  packets, i + 1)

\* peel_decode(k, block_len, packets): the k blocks, or None.
peel_decode(k, block_len, packets) ==
    LET d == PeelLoop(FountainDecoder_new(FountainMetadata(k * block_len,
                                                            block_len, k)),
                      packets, 1)
    IN  IF \A b \in 1..k : d.solutions[b].some
        THEN Some([b \in 1..k |-> d.solutions[b].val])
        ELSE None

\* join_blocks(blocks, ct_len): the blocks in order, cut to ct_len.
join_blocks(blocks, ct_len) ==
    Truncate(ConcatBlocks([b \in 1..Len(blocks) |-> Some(blocks[b])]), ct_len)

\* The 'M' arm of the receive loop.
OnMeta(s, d) ==
    IF s.meta = None \/ s.meta_raw_cache # Some(d)
    THEN IF ~d.json THEN s
         ELSE IF d.k = 0 \/ d.block_len = 0 \/ d.ct_len = 0 THEN s
         ELSE [s EXCEPT !.meta = Some([k |-> d.k, block_len |-> d.block_len,
                                       ct_len |-> d.ct_len]),
                        !.meta_file = Some(d),
                        !.meta_raw_cache = Some(d)]
    ELSE s

\* Mutant of OnPacket: packets are taken before any metadata.
OnPacket_NoMetaCheck(s, d) ==
    IF ~d.json \/ ~d.packet THEN s
    ELSE [s EXCEPT !.recv_packets_mem = Append(@, [ids |-> d.ids, body |-> d.body]),
                   !.jsonl = Append(@, [ids |-> d.ids,
                                        body_hex |-> hex_encode(d.body)])]

\* The 'P' arm of the receive loop.
OnPacket(s, d) ==
    IF s.meta = None THEN s
    ELSE IF ~d.json THEN s
    ELSE IF ~d.packet THEN s
    ELSE LET mem     == Append(s.recv_packets_mem, [ids |-> d.ids, body |-> d.body])
             m       == s.meta.val
             decoded == peel_decode(m.k, m.block_len, mem)
             kept    == [s EXCEPT !.recv_packets_mem = mem,
                                  !.jsonl = Append(@, [ids |-> d.ids,
                                                       body_hex |-> hex_encode(d.body)]),
                                  !.decodes = @ + 1]
         IN  IF decoded # None
             THEN [kept EXCEPT !.recovered = Some(join_blocks(decoded.val, m.ct_len)),
                               !.phase = "exit-0"]
             ELSE kept

FetchInit ==
    /\ FountainIdle
    /\ rs = RsIdle
    /\ cm = CmIdle
    /\ st = [phase |-> "fetch", meta |-> None, meta_raw_cache |-> None,
             meta_file |-> None, recv_packets_mem |-> <<>>, jsonl |-> <<>>,
             decodes |-> 0, recovered |-> None, log |-> <<>>]

\* sock.recv returns a datagram: one pass of the loop.
RecvDatagram ==
    /\ st.phase = "fetch"
    /\ Len(st.log) < MaxDatagrams
    /\ \E d \in MetaFrames \cup PacketFrames \cup OtherFrames :
          LET s == [st EXCEPT !.log = Append(@, d)]
          IN  st' = IF d.tag = "M" THEN OnMeta(s, d)
                    ELSE IF d.tag = "P" THEN OnPacket(s, d)
                    ELSE s
    /\ UNCHANGED <<original, enc, emitted, dec, result, received, nrecv,
                   lastPkt, rs, cm>>

\* --timeout-ms has elapsed at the top of the loop: exit(3).
FetchTimeout ==
    /\ st.phase = "fetch"
    /\ st' = [st EXCEPT !.phase = "exit-3"]
    /\ UNCHANGED <<original, enc, emitted, dec, result, received, nrecv,
                   lastPkt, rs, cm>>

FetchNext == RecvDatagram \/ FetchTimeout

FetchSpec == FetchInit /\ [][FetchNext]_vars

\* An 'M' datagram whose JSON parses and names k, block_len, ct_len > 0.
ValidMeta(d) ==
    d.tag = "M" /\ d.json /\ d.k > 0 /\ d.block_len > 0 /\ d.ct_len > 0

\* Some datagram so far was a valid 'M' frame.
MetaArrived == \E n \in 1..Len(st.log) : ValidMeta(st.log[n])

\* C21: a 'P' datagram that arrives before any valid 'M' datagram is
\* discarded, neither kept in memory nor appended to fountain_packets.jsonl,
\* and there is no decode attempt and no recovered_ct.bin before a valid
\* metadata frame has been accepted.
MetadataPrecedesPackets ==
    (st.phase \in {"fetch", "exit-0", "exit-3"} /\ ~MetaArrived)
        => /\ st.recv_packets_mem = <<>>
           /\ st.jsonl = <<>>
           /\ st.decodes = 0
           /\ st.recovered = None
           /\ st.phase # "exit-0"

\* Two packets arrived before the metadata and one after it; only the last
\* one was kept.
MetadataPrecedesPacketsWitness ==
    /\ st.phase = "fetch"
    /\ Len(st.log) = 4
    /\ st.log[1].tag = "P" /\ st.log[1].packet
    /\ st.log[2].tag = "P" /\ st.log[2].packet
    /\ ValidMeta(st.log[3])
    /\ st.log[4].tag = "P" /\ st.log[4].packet
    /\ Len(st.recv_packets_mem) = 1
    /\ Len(st.jsonl) = 1

\* C22: once a valid 'M' datagram has been accepted, a later 'M' datagram,
\* a duplicate or one with other content, leaves the k, block_len and ct_len
\* used for decoding, the stored fountain_meta.json and the packets received
\* so far unchanged.
MetadataFixedByFirst ==
    [][(/\ st.phase = "fetch"
        /\ MetaArrived
        /\ st'.phase = "fetch"
        /\ Len(st'.log) = Len(st.log) + 1
        /\ st'.log[Len(st'.log)].tag = "M")
          => /\ st'.meta = st.meta
             /\ st'.meta_file = st.meta_file
             /\ st'.recv_packets_mem = st.recv_packets_mem]_vars

-----------------------------------------------------------------------------
(* Referral trees and payouts, contracts/mod.rs (ReferralSpec).  The tree   *)
(* is built by link calls; rs.last records the latest ancestry or           *)
(* calculate_payouts call and what it returned.                             *)

Accounts == {"a", "b", "c"}

\* The key that a BTreeMap lookup does not find.
NoAccount == "-"

LevelsSamples == {<<>>, <<1000>>, <<0, 500>>, <<1000, 500, 250>>}
MinimumPayouts == {0, 10}
LevelCaps == {None, Some(0), Some(2)}
TriggerAmounts == {0, 100, 10000}
MaxLimit == 3
MaxChildren == {None, Some(1)}

\* ReferralConfig::max_depth
max_depth(config) ==
    IF config.level_cap.some THEN config.level_cap.val
    ELSE Len(config.levels_bps)

\* ReferralTree::link
link(tree, sponsor, invitee, max_children) ==
    [sponsors |-> [tree.sponsors EXCEPT ![invitee] = sponsor],
     quotas   |-> IF max_children.some
                  THEN [tree.quotas EXCEPT
                          ![sponsor] = Min2(@ + 1, max_children.val)]
                  ELSE tree.quotas]

RECURSIVE AncestryLoop(_, _, _, _, _)
\* The while loop of ancestry: one iteration per call.
AncestryLoop(tree, node, limit, chain, visited) ==
    LET parent == tree.sponsors[node]
    IN  IF parent = NoAccount THEN chain
        ELSE IF parent \in visited THEN chain
        ELSE IF Len(chain) + 1 >= limit THEN Append(chain, parent)
        ELSE AncestryLoop(tree, parent, limit, Append(chain, parent),
                          visited \cup {parent})

\* ReferralTree::ancestry
ancestry(tree, node, limit) == AncestryLoop(tree, node, limit, <<>>, {})

RECURSIVE PayoutLoop(_, _, _, _, _)
\* The for loop of calculate_payouts over the chain, from index idx (0-based).
PayoutLoop(config, trigger_amount, chain, idx, payouts) ==
    IF idx >= Len(chain) THEN payouts
    ELSE IF idx >= Len(config.levels_bps) THEN payouts
    ELSE LET bps    == config.levels_bps[idx + 1]
             amount == (trigger_amount * bps) \div 10000
         IN  IF bps = 0 \/ amount < config.minimum_payout
             THEN PayoutLoop(config, trigger_amount, chain, idx + 1, payouts)
             ELSE PayoutLoop(config, trigger_amount, chain, idx + 1,
                             Append(payouts, [recipient |-> chain[idx + 1],
                                              amount |-> amount,
                                              level |-> idx + 1]))

\* ReferralEngine::calculate_payouts
calculate_payouts(config, tree, trigger_amount, origin) ==
    IF trigger_amount = 0 THEN <<>>
    ELSE LET levels == Min2(Len(config.levels_bps), max_depth(config))
             chain  == ancestry(tree, origin, levels)
         IN  PayoutLoop(config, trigger_amount, chain, 0, <<>>)

\* ReferralTree::new
ReferralTree_new ==
    [sponsors |-> [a \in Accounts |-> NoAccount], quotas |-> [a \in Accounts |-> 0]]

NoCall == [op |-> "none", origin |-> NoAccount, amount |-> 0, limit |-> 0,
           chain |-> <<>>, payouts |-> <<>>]

ReferralInit ==
    /\ FountainIdle
    /\ st = StIdle
    /\ cm = CmIdle
    /\ \E bps \in LevelsSamples, mp \in MinimumPayouts, cap \in LevelCaps :
          rs = [phase |-> "referral",
                config |-> [levels_bps |-> bps, minimum_payout |-> mp,
                            level_cap |-> cap],
                tree |-> ReferralTree_new,
                last |-> NoCall]

\* tree.link(sponsor, invitee, max_children)
Link ==
    /\ rs.phase = "referral"
    /\ \E sponsor \in Accounts, invitee \in Accounts, mc \in MaxChildren :
          rs' = [rs EXCEPT !.tree = link(@, sponsor, invitee, mc),
                           !.last = NoCall]
    /\ UNCHANGED <<original, enc, emitted, dec, result, received, nrecv,
                   lastPkt, st, cm>>

\* tree.ancestry(node, limit)
Ancestry ==
    /\ rs.phase = "referral"
    /\ \E node \in Accounts, limit \in 0..MaxLimit :
          rs' = [rs EXCEPT !.last = [op |-> "ancestry", origin |-> node,
                                     amount |-> 0, limit |-> limit,
                                     chain |-> ancestry(rs.tree, node, limit),
                                     payouts |-> <<>>]]
    /\ UNCHANGED <<original, enc, emitted, dec, result, received, nrecv,
                   lastPkt, st, cm>>

\* ReferralEngine::new(&config, &tree).calculate_payouts(trigger_amount, origin)
CalculatePayouts ==
    /\ rs.phase = "referral"
    /\ \E origin \in Accounts, t \in TriggerAmounts :
          rs' = [rs EXCEPT !.last =
                    [op |-> "payouts", origin |-> origin, amount |-> t,
                     limit |-> 0, chain |-> <<>>,
                     payouts |-> calculate_payouts(rs.config, rs.tree, t, origin)]]
    /\ UNCHANGED <<original, enc, emitted, dec, result, received, nrecv,
                   lastPkt, st, cm>>

ReferralNext == Link \/ Ancestry \/ CalculatePayouts

ReferralSpec == ReferralInit /\ [][ReferralNext]_vars

RECURSIVE NthAncestor(_, _, _)
\* The account reached from node by following n sponsor links.
NthAncestor(tree, node, n) ==
    IF n = 0 \/ node = NoAccount THEN node
    ELSE NthAncestor(tree, tree.sponsors[node], n - 1)

\* The largest number of payouts the configuration allows.
PayoutDepth(config) ==
    IF config.level_cap.some
    THEN Min2(Len(config.levels_bps), config.level_cap.val)
    ELSE Len(config.levels_bps)

\* What the payouts of the latest calculate_payouts call must satisfy.
PayoutsRespect(config, tree, last) ==
    /\ Len(last.payouts) <= PayoutDepth(config)
    /\ \A i \in 1..Len(last.payouts) :
          LET p == last.payouts[i]
          IN  /\ p.level \in 1..Len(config.levels_bps)
              /\ p.recipient = NthAncestor(tree, last.origin, p.level)
              /\ p.recipient # NoAccount
              /\ p.amount = (last.amount * config.levels_bps[p.level]) \div 10000
              /\ p.amount >= config.minimum_payout
              /\ config.levels_bps[p.level] # 0

\* C23: calculate_payouts returns at most min(len(levels_bps), level_cap)
\* payouts, none when level_cap is 0; the payout of level L goes to the L-th
\* nearest ancestor of the origin and is trigger_amount * levels_bps[L-1]
\* / 10000; no payout is below minimum_payout or from a level with bps 0.
PayoutsRespectDepthAndMinimum ==
    (rs.phase = "referral" /\ rs.last.op = "payouts")
        => PayoutsRespect(rs.config, rs.tree, rs.last)

\* C30: the chain that ancestry returns holds no account twice and never
\* the origin, and calculate_payouts pays no account on its own trigger
\* and no account at two levels, whatever links were made.
AncestryWellFounded ==
    (rs.phase = "referral" /\ rs.last.op \in {"ancestry", "payouts"})
        => /\ \A i, j \in 1..Len(rs.last.chain) :
                 i # j => rs.last.chain[i] # rs.last.chain[j]
           /\ \A i \in 1..Len(rs.last.chain) : rs.last.chain[i] # rs.last.origin
           /\ \A i, j \in 1..Len(rs.last.payouts) :
                 i # j => rs.last.payouts[i].recipient # rs.last.payouts[j].recipient
           /\ \A i \in 1..Len(rs.last.payouts) :
                 rs.last.payouts[i].recipient # rs.last.origin

-----------------------------------------------------------------------------
(* The ledger, ledger/mod.rs (LedgerSpec): a LedgerState that receives      *)
(* apply_mutations calls.  cm.ledger is the LedgerState, cm.last the latest *)
(* call and its result, cm.effects counts, per receipt id, the calls that   *)
(* changed a balance.  Memo and reason strings are left out.                *)

MaxCalls == 2
MaxBatch == 2

\* The balance of an account or budget that is not in its BTreeMap.
Absent == 0 - 1

Budgets == {"g"}
ReceiptIds == {1, 2}
Timestamps == {1, 2}

Mutation(type, from, to, budget_id, amount, transfers, payouts) ==
    [type |-> type, from |-> from, to |-> to, budget_id |-> budget_id,
     amount |-> amount, transfers |-> transfers, payouts |-> payouts]

Emit(to, amount) == Mutation("Emit", NoAccount, to, "", amount, <<>>, <<>>)

Transfer(from, to, amount) ==
    Mutation("Transfer", from, to, "", amount, <<>>, <<>>)

FundBudget(from, budget_id, amount) ==
    Mutation("FundBudget", from, NoAccount, budget_id, amount, <<>>, <<>>)

SpendBudget(budget_id, plan) ==
    Mutation("SpendBudget", NoAccount, NoAccount, budget_id, 0, plan, <<>>)

ApplyReferralPayouts(payouts) ==
    Mutation("ApplyReferralPayouts", NoAccount, NoAccount, "", 0, <<>>, payouts)

BudgetTransfer(to, amount) == [to |-> to, amount |-> amount]

ReferralPayout(recipient, amount, level) ==
    [recipient |-> recipient, amount |-> amount, level |-> level]

MutationSamples ==
    {Emit("a", 2), Emit("b", 1),
     Transfer("a", "b", 1), Transfer("a", "b", 3), Transfer("b", "a", 1),
     Transfer("a", "a", 1),
     FundBudget("a", "g", 1), FundBudget("b", "g", 2),
     SpendBudget("g", <<BudgetTransfer("b", 1)>>),
     SpendBudget("g", <<BudgetTransfer("a", 1), BudgetTransfer("b", 1)>>),
     ApplyReferralPayouts(<<ReferralPayout("a", 1, 1)>>)}

LedgerEvent(type, from, to, budget_id, amount, level) ==
    [type |-> type, from |-> from, to |-> to, budget_id |-> budget_id,
     amount |-> amount, level |-> level]

NoBudget == [available |-> Absent, steward |-> NoAccount, contract |-> ""]

\* LedgerState::new
LedgerState_new ==
    [meta |-> [height |-> 0, timestamp |-> 0, previous_receipt |-> None],
     accounts |-> [a \in Accounts |-> Absent],
     budgets |-> [b \in Budgets |-> NoBudget],
     events |-> <<>>,
     applied_receipts |-> {}]

LedgerOk == <<"Ok", "">>

LedgerErr(kind, subject) == <<kind, subject>>

\* LedgerState::credit_account
credit_account(l, account, amount) ==
    [l EXCEPT !.accounts[account] = IF @ = Absent THEN amount ELSE @ + amount]

\* Mutant of debit_account: the balance is not compared with the amount.
debit_account_NoCheck(l, account, amount) ==
    IF l.accounts[account] = Absent
    THEN [ledger |-> l, out |-> LedgerErr("UnknownAccount", account)]
    ELSE [ledger |-> [l EXCEPT !.accounts[account] = @ - amount],
          out |-> LedgerOk]

\* LedgerState::debit_account
debit_account(l, account, amount) ==
    IF l.accounts[account] = Absent
    THEN [ledger |-> l, out |-> LedgerErr("UnknownAccount", account)]
    ELSE IF l.accounts[account] < amount
    THEN [ledger |-> l, out |-> LedgerErr("InsufficientAccountFunds", account)]
    ELSE [ledger |-> [l EXCEPT !.accounts[account] = @ - amount],
          out |-> LedgerOk]

RECURSIVE total_amount(_)
\* BudgetSpendPlan::total_amount
total_amount(transfers) ==
    IF transfers = <<>> THEN 0
    ELSE transfers[1].amount + total_amount(Tail(transfers))

\* BudgetState::debit, on the budget budget_id of the ledger
BudgetState_debit(l, budget_id, amount) ==
    IF l.budgets[budget_id].available < amount
    THEN [ledger |-> l, out |-> LedgerErr("InsufficientBudgetFunds", budget_id)]
    ELSE [ledger |-> [l EXCEPT !.budgets[budget_id].available = @ - amount],
          out |-> LedgerOk]

RECURSIVE SpendLoop(_, _, _, _)
\* The loop over plan.transfers in the SpendBudget arm.
SpendLoop(l, budget_id, transfers, i) ==
    IF i > Len(transfers) THEN l
    ELSE LET t == transfers[i]
             c == credit_account(l, t.to, t.amount)
         IN  SpendLoop([c EXCEPT !.events = Append(@,
                           LedgerEvent("BudgetDebited", NoAccount, t.to,
                                       budget_id, t.amount, 0))],
                       budget_id, transfers, i + 1)

RECURSIVE ReferralLoop(_, _, _)
\* The loop over payouts in the ApplyReferralPayouts arm.
ReferralLoop(l, payouts, i) ==
    IF i > Len(payouts) THEN l
    ELSE LET p == payouts[i]
             c == credit_account(l, p.recipient, p.amount)
         IN  ReferralLoop([c EXCEPT !.events = Append(@,
                              LedgerEvent("ReferralPayout", NoAccount,
                                          p.recipient, "", p.amount, p.level))],
                          payouts, i + 1)

\* One pass of the loop over the mutations: the match on the mutation.
ApplyOne(l, m) ==
    IF m.type = "Emit"
    THEN [ledger |-> [credit_account(l, m.to, m.amount) EXCEPT
                         !.events = Append(@, LedgerEvent("Emission", NoAccount,
                                                          m.to, "", m.amount, 0))],
          out |-> LedgerOk]
    ELSE IF m.type = "Transfer"
    THEN LET d == debit_account(l, m.from, m.amount)
         IN  IF d.out # LedgerOk THEN d
             ELSE [ledger |-> [credit_account(d.ledger, m.to, m.amount) EXCEPT
                                 !.events = Append(@, LedgerEvent("Transfer",
                                                m.from, m.to, "", m.amount, 0))],
                   out |-> LedgerOk]
    ELSE IF m.type = "FundBudget"
    THEN LET d == debit_account(l, m.from, m.amount)
         IN  IF d.out # LedgerOk THEN d
             ELSE [ledger |->
                     [d.ledger EXCEPT
                        !.budgets[m.budget_id] =
                            IF @.available = Absent
                            THEN [available |-> m.amount, steward |-> m.from,
                                  contract |-> ""]
                            ELSE [@ EXCEPT !.available = @ + m.amount],
                        !.events = Append(@, LedgerEvent("BudgetFunded", m.from,
                                              NoAccount, m.budget_id, m.amount, 0))],
                   out |-> LedgerOk]
    ELSE IF m.type = "SpendBudget"
    THEN IF m.budget_id \notin Budgets \/ l.budgets[m.budget_id].available = Absent
         THEN [ledger |-> l, out |-> LedgerErr("UnknownBudget", m.budget_id)]
         ELSE LET d == BudgetState_debit(l, m.budget_id, total_amount(m.transfers))
              IN  IF d.out # LedgerOk THEN d
                  ELSE [ledger |-> SpendLoop(d.ledger, m.budget_id, m.transfers, 1),
                        out |-> LedgerOk]
    ELSE [ledger |-> ReferralLoop(l, m.payouts, 1), out |-> LedgerOk]

RECURSIVE ApplyLoop(_, _, _)
\* The loop over the mutations; `?` leaves it at the first error.
ApplyLoop(l, mutations, i) ==
    IF i > Len(mutations) THEN [ledger |-> l, out |-> LedgerOk]
    ELSE LET r == ApplyOne(l, mutations[i])
         IN  IF r.out # LedgerOk THEN r
             ELSE ApplyLoop(r.ledger, mutations, i + 1)

\* LedgerState::apply_mutations
apply_mutations(l, mutations, receipt_id, timestamp) ==
    IF receipt_id \in l.applied_receipts
    THEN [ledger |-> l, out |-> LedgerErr("DuplicateReceipt", "")]
    ELSE LET r == ApplyLoop(l, mutations, 1)
         IN  IF r.out # LedgerOk THEN r
             ELSE [ledger |->
                     [r.ledger EXCEPT
                        !.meta = [height |-> @.height + 1,
                                  timestamp |-> timestamp,
                                  previous_receipt |-> Some(receipt_id)],
                        !.applied_receipts = @ \cup {receipt_id}],
                   out |-> LedgerOk]

\* Whether two ledgers differ in an account or budget balance.
BalancesDiffer(l1, l2) ==
    \/ \E a \in Accounts : l1.accounts[a] # l2.accounts[a]
    \/ \E b \in Budgets : l1.budgets[b].available # l2.budgets[b].available

LedgerInit ==
    /\ FountainIdle
    /\ rs = RsIdle
    /\ st = StIdle
    /\ cm = [phase |-> "ledger", ledger |-> LedgerState_new, ncalls |-> 0,
             last |-> [mutations |-> <<>>, receipt_id |-> 0, timestamp |-> 0,
                       out |-> LedgerOk],
             effects |-> [r \in ReceiptIds |-> 0],
             successes |-> <<>>]

\* ledger.apply_mutations(&mutations, receipt_id, timestamp)
ApplyMutations ==
    /\ cm.phase = "ledger"
    /\ cm.ncalls < MaxCalls
    /\ \E mutations \in SeqsUpTo(MutationSamples, MaxBatch),
          receipt_id \in ReceiptIds, timestamp \in Timestamps :
          LET r == apply_mutations(cm.ledger, mutations, receipt_id, timestamp)
          IN  cm' = [cm EXCEPT
                       !.ledger = r.ledger,
                       !.ncalls = @ + 1,
                       !.last = [mutations |-> mutations,
                                 receipt_id |-> receipt_id,
                                 timestamp |-> timestamp, out |-> r.out],
                       !.effects[receipt_id] =
                           IF BalancesDiffer(cm.ledger, r.ledger) THEN @ + 1 ELSE @,
                       !.successes = IF r.out = LedgerOk
                                     THEN Append(@, receipt_id) ELSE @]
    /\ UNCHANGED <<original, enc, emitted, dec, result, received, nrecv,
                   lastPkt, rs, st>>

LedgerNext == ApplyMutations

LedgerSpec == LedgerInit /\ [][LedgerNext]_vars

RECURSIVE SumInts(_)
\* The sum of a sequence of integers.
SumInts(seq) == IF seq = <<>> THEN 0 ELSE seq[1] + SumInts(Tail(seq))

\* What mutation m adds to the balance of account a.
AccountDelta(m, a) ==
    CASE m.type = "Emit" -> IF m.to = a THEN m.amount ELSE 0
      [] m.type = "Transfer" ->
            (IF m.to = a THEN m.amount ELSE 0) - (IF m.from = a THEN m.amount ELSE 0)
      [] m.type = "FundBudget" -> IF m.from = a THEN 0 - m.amount ELSE 0
      [] m.type = "SpendBudget" ->
            SumInts([i \in 1..Len(m.transfers) |->
                       IF m.transfers[i].to = a THEN m.transfers[i].amount ELSE 0])
      [] OTHER ->
            SumInts([i \in 1..Len(m.payouts) |->
                       IF m.payouts[i].recipient = a THEN m.payouts[i].amount ELSE 0])

\* What mutation m adds to the balance of budget b.
BudgetDelta(m, b) ==
    CASE m.type = "FundBudget" -> IF m.budget_id = b THEN m.amount ELSE 0
      [] m.type = "SpendBudget" ->
            IF m.budget_id = b
            THEN 0 - SumInts([i \in 1..Len(m.transfers) |-> m.transfers[i].amount])
            ELSE 0
      [] OTHER -> 0

\* The events that mutation m stands for, in order, by type and amount.
EventsOf(m) ==
    CASE m.type = "Emit" -> <<<<"Emission", m.amount>>>>
      [] m.type = "Transfer" -> <<<<"Transfer", m.amount>>>>
      [] m.type = "FundBudget" -> <<<<"BudgetFunded", m.amount>>>>
      [] m.type = "SpendBudget" ->
            [i \in 1..Len(m.transfers) |-> <<"BudgetDebited", m.transfers[i].amount>>]
      [] OTHER ->
            [i \in 1..Len(m.payouts) |-> <<"ReferralPayout", m.payouts[i].amount>>]

RECURSIVE BatchEvents(_)
\* The events of a batch, in list order.
BatchEvents(mutations) ==
    IF mutations = <<>> THEN <<>>
    ELSE EventsOf(mutations[1]) \o BatchEvents(Tail(mutations))

\* A balance, with 0 for an entry that is not in the map.
Balance(v) == IF v = Absent THEN 0 ELSE v

\* A call of apply_mutations is made in this step.
LedgerCall == cm.phase = "ledger" /\ cm'.ncalls = cm.ncalls + 1

LedgerAtomicity ==
    [][(LedgerCall /\ cm'.last.out # LedgerOk)
          => /\ \A a \in Accounts : cm'.ledger.accounts[a] = cm.ledger.accounts[a]
             /\ \A b \in Budgets : cm'.ledger.budgets[b] = cm.ledger.budgets[b]
             /\ cm'.ledger.events = cm.ledger.events
             /\ cm'.ledger.meta = cm.ledger.meta
             /\ cm'.ledger.applied_receipts = cm.ledger.applied_receipts]_vars

\* C28: the mutations of one receipt id take effect on balances and budgets
\* at most once; after a success a call with the same receipt id returns
\* DuplicateReceipt and changes nothing; height is the number of receipts
\* applied successfully and previous_receipt the id of the latest one.
ReceiptReplayProtection ==
    cm.phase = "ledger" =>
        /\ \A r \in ReceiptIds : cm.effects[r] <= 1
        /\ (cm.last.receipt_id \in Range(cm.successes)
              /\ cm.last.out # LedgerOk) => cm.last.out[1] = "DuplicateReceipt"
        /\ cm.ledger.meta.height = Len(cm.successes)
        /\ cm.ledger.meta.previous_receipt =
              IF cm.successes = <<>> THEN None
              ELSE Some(cm.successes[Len(cm.successes)])

-----------------------------------------------------------------------------
(* Contract actions applied to the ledger (ContractSpec): a contract with a *)
(* budget, a referral tree, and apply_action calls whose mutations go to    *)
(* apply_mutations under a fresh receipt id.                                *)

MaxWork == 2
MaxLinks == 2

\* The treasury balance that the ledger starts from.
Treasury == 40000

FundAmounts == {20000}
WorkPayouts == {0, 100, 10000}
ContractConfigs ==
    {[levels_bps |-> <<1000>>, minimum_payout |-> 1, level_cap |-> None],
     [levels_bps |-> <<1000, 500, 250>>, minimum_payout |-> 10,
      level_cap |-> Some(2)]}

\* The plan transfers for the referral payouts, in order.
ReferralTransfers(payouts) ==
    [i \in 1..Len(payouts) |-> BudgetTransfer(payouts[i].recipient, payouts[i].amount)]

\* ContractDefinition::apply_action
apply_action(contract, action, tree) ==
    IF action.type = "FundBudget"
    THEN <<FundBudget(action.from, contract.budget_id, action.amount)>>
    ELSE LET referral_payouts ==
                 IF action.referral_origin.some
                 THEN calculate_payouts(contract.referral, tree, action.payout,
                                        action.referral_origin.val)
                 ELSE <<>>
             plan == <<BudgetTransfer(action.worker, action.payout)>>
                        \o ReferralTransfers(referral_payouts)
         IN  <<SpendBudget(contract.budget_id, plan)>>
                \o (IF referral_payouts # <<>>
                    THEN <<ApplyReferralPayouts(referral_payouts)>>
                    ELSE <<>>)

ContractInit ==
    /\ FountainIdle
    /\ rs = RsIdle
    /\ st = StIdle
    /\ \E config \in ContractConfigs :
          cm = [phase |-> "contract",
                contract |-> [id |-> "contract-1", steward |-> "a",
                              budget_id |-> "g", referral |-> config],
                ledger |-> credit_account(LedgerState_new, "a", Treasury),
                tree |-> ReferralTree_new,
                nlinks |-> 0, nwork |-> 0,
                last |-> [type |-> "none", worker |-> NoAccount,
                          origin |-> None, payouts |-> <<>>, out |-> LedgerOk]]

\* tree.link(sponsor, invitee, max_children)
ContractLink ==
    /\ cm.phase = "contract"
    /\ cm.nlinks < MaxLinks
    /\ \E sponsor \in Accounts, invitee \in Accounts, mc \in MaxChildren :
          cm' = [cm EXCEPT !.tree = link(@, sponsor, invitee, mc),
                           !.nlinks = @ + 1,
                           !.last.type = "link"]
    /\ UNCHANGED <<original, enc, emitted, dec, result, received, nrecv,
                   lastPkt, rs, st>>

\* apply_action(FundBudget{from, amount}) and apply_mutations of the result
ContractFund ==
    /\ cm.phase = "contract"
    /\ cm.nwork < MaxWork
    /\ \E from \in Accounts, amount \in FundAmounts :
          LET mutations == apply_action(cm.contract,
                              [type |-> "FundBudget", from |-> from,
                               amount |-> amount], cm.tree)
              r == apply_mutations(cm.ledger, mutations, cm.nwork + 1, cm.nwork + 1)
          IN  cm' = [cm EXCEPT !.ledger = r.ledger,
                               !.nwork = @ + 1,
                               !.last = [type |-> "fund", worker |-> NoAccount,
                                         origin |-> None, payouts |-> <<>>,
                                         out |-> r.out]]
    /\ UNCHANGED <<original, enc, emitted, dec, result, received, nrecv,
                   lastPkt, rs, st>>

\* apply_action(ExecuteWork{worker, payout, referral_origin}) and
\* apply_mutations of the result
ExecuteWork ==
    /\ cm.phase = "contract"
    /\ cm.nwork < MaxWork
    /\ \E worker \in Accounts, payout \in WorkPayouts,
          origin \in {None} \cup {Some(a) : a \in Accounts} :
          LET mutations == apply_action(cm.contract,
                              [type |-> "ExecuteWork", worker |-> worker,
                               payout |-> payout, referral_origin |-> origin],
                              cm.tree)
              r == apply_mutations(cm.ledger, mutations, cm.nwork + 1, cm.nwork + 1)
          IN  cm' = [cm EXCEPT
                       !.ledger = r.ledger,
                       !.nwork = @ + 1,
                       !.last = [type |-> "work", worker |-> worker,
                                 origin |-> origin,
                                 payouts |-> IF Len(mutations) = 2
                                             THEN mutations[2].payouts ELSE <<>>,
                                 out |-> r.out]]
    /\ UNCHANGED <<original, enc, emitted, dec, result, received, nrecv,
                   lastPkt, rs, st>>

ContractNext == ContractLink \/ ContractFund \/ ExecuteWork

ContractSpec == ContractInit /\ [][ContractNext]_vars

\* The sum of all account balances of a ledger.
AccountTotal(l) ==
    Balance(l.accounts["a"]) + Balance(l.accounts["b"]) + Balance(l.accounts["c"])

\* C29: when the mutations of apply_action for ExecuteWork are applied, the
\* total credited to accounts equals the amount debited from the contract's
\* budget, every referral recipient is credited its payout amount exactly
\* once, and the sum of all account and budget balances is unchanged.
FundsConserved ==
    [][(/\ cm.phase = "contract"
        /\ cm'.nwork = cm.nwork + 1
        /\ cm'.last.type = "work"
        /\ cm'.last.out = LedgerOk)
          => LET old == cm.ledger  new == cm'.ledger
                 debited == old.budgets["g"].available - new.budgets["g"].available
             IN  /\ AccountTotal(new) - AccountTotal(old) = debited
                 /\ AccountTotal(new) + new.budgets["g"].available
                       = AccountTotal(old) + old.budgets["g"].available
                 /\ \A i \in 1..Len(cm'.last.payouts) :
                       LET p == cm'.last.payouts[i]
                       IN  p.recipient # cm'.last.worker
                              => Balance(new.accounts[p.recipient])
                                    - Balance(old.accounts[p.recipient])
                                 = p.amount]_vars

====
